---- MODULE Spec2Model ----
(***************************************************************************)
(* A model of the schedule-bot day planner: the persistent store of        *)
(* database.py (users, tasks, availability, busy blocks, plans and plan    *)
(* items), the plan generation, locking and reading operations on it, and  *)
(* the pure scheduling engine of ai_engine.py.                             *)
(*                                                                         *)
(* Times of day are the store's "HH:MM" strings, modelled as the pair      *)
(* <<h, m>> of the two zero-padded numbers the string holds; None is <<>>  *)
(* and the placeholder "--:--" is <<-1, -1>> (it sorts before every digit  *)
(* string, as '-' sorts before '0').                                       *)
(***************************************************************************)
EXTENDS Integers, Sequences, FiniteSets, TLC

VARIABLES
    users,          \* table users: the tg_id of every user row
    tasks,          \* table tasks: set of rows
    availability,   \* table availability: set of rows
    busy_blocks,    \* table busy_blocks: sequence of rows (append only)
    plans,          \* table plans: set of rows
    plan_items,     \* table plan_items: set of rows
    ret,            \* what the last call returned or raised (calls made one after another)
    sess,           \* per worker: the call in progress and its session's locals
    bp,             \* the build_plan run: its arguments, locals and result
    recurring_tasks \* table recurring_tasks: set of rows

vars == <<users, tasks, availability, busy_blocks, plans, plan_items, ret, sess, bp,
          recurring_tasks>>

-----------------------------------------------------------------------------
(* Bounds of the model. *)

MaxTasks == 2
MaxBusy == 1
MaxVersions == 2
MaxStoreTasks == 1
MaxRanges == 3
MaxRepeats == 2

(* Program constants. *)

DefaultMinutes == 30
ProbeStep == 5
MinWindow == 10
DefaultAvailStartHour == 9
DefaultAvailEndHour == 21

None == <<>>
Dashes == <<-1, -1>>

-----------------------------------------------------------------------------
(* "HH:MM" strings and minutes of the day. *)

\* database.py _time_to_minutes(_parse_hhmm(s)); ai_engine.py hhmm_to_minutes(s)
hhmm_to_minutes(s) == s[1] * 60 + s[2]

\* ai_engine.py minutes_to_hhmm: floor division and non-negative remainder
minutes_to_hhmm(x) == <<x \div 60, x % 60>>

Max(a, b) == IF a >= b THEN a ELSE b

\* database.py _minutes_to_hhmm: clamps at 0 first
db_minutes_to_hhmm(x) == minutes_to_hhmm(Max(0, x))

\* Lexicographic order of two integer tuples of the same length: the order of
\* Python tuples, and of zero-padded "HH:MM" strings read as <<h, m>>.
RECURSIVE LexLess(_, _)
LexLess(a, b) ==
    IF a = <<>> \/ b = <<>> THEN FALSE
    ELSE IF Head(a) # Head(b) THEN Head(a) < Head(b)
    ELSE LexLess(Tail(a), Tail(b))

\* Stable insertion of the keyed element x into the sorted sequence s: after
\* every element whose key is not greater.
RECURSIVE InsertByKey(_, _)
InsertByKey(x, s) ==
    IF s = <<>> THEN <<x>>
    ELSE IF LexLess(x.key, Head(s).key) THEN <<x>> \o s
    ELSE <<Head(s)>> \o InsertByKey(x, Tail(s))

\* A stable sort of a sequence of [key, val] records by key.
RECURSIVE SortByKey(_)
SortByKey(s) ==
    IF s = <<>> THEN <<>>
    ELSE InsertByKey(s[Len(s)], SortByKey(SubSeq(s, 1, Len(s) - 1)))

Vals(s) == [i \in DOMAIN s |-> s[i].val]

Range(s) == {s[i] : i \in DOMAIN s}

RECURSIVE SetToSeq(_)
\* Some enumeration of a finite set (the order is fixed by a later sort).
SetToSeq(S) ==
    IF S = {} THEN <<>>
    ELSE LET x == CHOOSE y \in S : TRUE IN <<x>> \o SetToSeq(S \ {x})

-----------------------------------------------------------------------------
(* ai_engine.py: the interval algebra and the placers.  A range or window  *)
(* is a pair <<start, end>> of minutes.                                    *)

\* Mutant of merge_fold: every range is merged into the last one.
RECURSIVE merge_fold_always(_, _, _)
merge_fold_always(ranges, i, merged) ==
    IF i > Len(ranges) THEN merged
    ELSE merge_fold_always(ranges, i + 1,
             [merged EXCEPT ![Len(merged)] =
                 <<merged[Len(merged)][1], Max(merged[Len(merged)][2], ranges[i][2])>>])

\* Mutant of merge_fold: a range that starts where the last one ends is
\* kept apart.
RECURSIVE merge_fold_touching_apart(_, _, _)
merge_fold_touching_apart(ranges, i, merged) ==
    IF i > Len(ranges) THEN merged
    ELSE IF ranges[i][1] < merged[Len(merged)][2]
    THEN merge_fold_touching_apart(ranges, i + 1,
             [merged EXCEPT ![Len(merged)] =
                 <<merged[Len(merged)][1], Max(merged[Len(merged)][2], ranges[i][2])>>])
    ELSE merge_fold_touching_apart(ranges, i + 1, Append(merged, ranges[i]))

\* The loop of merge_ranges over the sorted ranges from index i on.
RECURSIVE merge_fold(_, _, _)
merge_fold(ranges, i, merged) ==
    IF i > Len(ranges) THEN merged
    ELSE LET s == ranges[i][1]
             e == ranges[i][2]
             ps == merged[Len(merged)][1]
             pe == merged[Len(merged)][2]
         IN IF s <= pe
            THEN merge_fold(ranges, i + 1,
                            [merged EXCEPT ![Len(merged)] = <<ps, Max(pe, e)>>])
            ELSE merge_fold(ranges, i + 1, Append(merged, <<s, e>>))

merge_ranges(ranges) ==
    IF ranges = <<>> THEN <<>>
    ELSE LET sorted == Vals(SortByKey([i \in DOMAIN ranges |->
                                         [key |-> ranges[i], val |-> ranges[i]]]))
         IN merge_fold(sorted, 2, <<sorted[1]>>)

\* The inner loop of free_windows: one busy range <<bs, be>> taken out of
\* every window.
RECURSIVE subtract_busy(_, _, _)
subtract_busy(windows, bs, be) ==
    IF windows = <<>> THEN <<>>
    ELSE LET ws == Head(windows)[1]
             we == Head(windows)[2]
             kept == IF be <= ws \/ bs >= we
                     THEN <<Head(windows)>>
                     ELSE (IF ws < bs THEN << <<ws, bs>> >> ELSE <<>>)
                          \o (IF be < we THEN << <<be, we>> >> ELSE <<>>)
         IN kept \o subtract_busy(Tail(windows), bs, be)

\* The outer loop of free_windows over the merged busy ranges.
RECURSIVE subtract_all(_, _)
subtract_all(windows, busy_m) ==
    IF busy_m = <<>> THEN windows
    ELSE subtract_all(subtract_busy(windows, Head(busy_m)[1], Head(busy_m)[2]),
                      Tail(busy_m))

\* Mutant of long_enough: short windows are kept.
long_enough_all(windows) == windows

\* free_windows, line 68, and _cut_window, line 82
long_enough(windows) ==
    SelectSeq(windows, LAMBDA w : w[2] - w[1] >= MinWindow)

\* avail: a pair of "HH:MM"; busy: a sequence of pairs of "HH:MM".
free_windows(avail, busy) ==
    LET a0 == hhmm_to_minutes(avail[1])
        a1 == hhmm_to_minutes(avail[2])
        busy_m == merge_ranges([i \in DOMAIN busy |->
                     <<hhmm_to_minutes(busy[i][1]), hhmm_to_minutes(busy[i][2])>>])
    IN long_enough(subtract_all(<< <<a0, a1>> >>, busy_m))

\* Mutant of cut_window: the window is left as it was.
cut_window_uncut(windows, idx, cut_s, cut_e) == windows

\* Mutant of cut_window: the parts are inserted at idx in list order, which
\* leaves the later part first.
cut_window_parts_swapped(windows, idx, cut_s, cut_e) ==
    SubSeq(windows, 1, idx - 1)
    \o long_enough((IF cut_e < windows[idx][2]
                    THEN << <<cut_e, windows[idx][2]>> >> ELSE <<>>)
                   \o (IF windows[idx][1] < cut_s
                       THEN << <<windows[idx][1], cut_s>> >> ELSE <<>>))
    \o SubSeq(windows, idx + 1, Len(windows))

\* _cut_window: windows[idx] replaced by what is left of it around
\* [cut_s, cut_e), each part kept only if it is long enough.
cut_window(windows, idx, cut_s, cut_e) ==
    LET ws == windows[idx][1]
        we == windows[idx][2]
        new_parts == (IF ws < cut_s THEN << <<ws, cut_s>> >> ELSE <<>>)
                     \o (IF cut_e < we THEN << <<cut_e, we>> >> ELSE <<>>)
    IN SubSeq(windows, 1, idx - 1) \o long_enough(new_parts)
       \o SubSeq(windows, idx + 1, Len(windows))

\* Mutant of first_containing: a window that starts at start_min does not
\* count.
first_containing_inner(windows, start_min, end_min) ==
    LET fits == {i \in DOMAIN windows :
                    start_min > windows[i][1] /\ end_min <= windows[i][2]}
    IN IF fits = {} THEN 0 ELSE CHOOSE i \in fits : \A j \in fits : i <= j

\* The index of the first window that holds [start_min, end_min), 0 if none.
first_containing(windows, start_min, end_min) ==
    LET fits == {i \in DOMAIN windows :
                    start_min >= windows[i][1] /\ end_min <= windows[i][2]}
    IN IF fits = {} THEN 0 ELSE CHOOSE i \in fits : \A j \in fits : i <= j

\* Mutant of place_fixed: the task is put at the start of the window found.
place_fixed_at_window_start(windows, start_min, dur) ==
    LET end_min == start_min + dur
        i == first_containing(windows, start_min, end_min)
    IN IF i = 0 THEN [got |-> None, windows |-> windows]
       ELSE [got |-> <<windows[i][1], windows[i][1] + dur>>,
             windows |-> cut_window(windows, i, windows[i][1], windows[i][1] + dur)]

\* place_fixed: [got |-> None or the placed <<start, end>>, windows |-> the list after it].
place_fixed(windows, start_min, dur) ==
    LET end_min == start_min + dur
        i == first_containing(windows, start_min, end_min)
    IN IF i = 0 THEN [got |-> None, windows |-> windows]
       ELSE [got |-> <<start_min, end_min>>,
             windows |-> cut_window(windows, i, start_min, end_min)]

\* Mutant of first_fitting: the last window that is long enough is taken.
first_fitting_last(windows, dur) ==
    LET fits == {i \in DOMAIN windows : windows[i][2] - windows[i][1] >= dur}
    IN IF fits = {} THEN 0 ELSE CHOOSE i \in fits : \A j \in fits : i >= j

\* The index of the first window of length >= dur, 0 if none.
first_fitting(windows, dur) ==
    LET fits == {i \in DOMAIN windows : windows[i][2] - windows[i][1] >= dur}
    IN IF fits = {} THEN 0 ELSE CHOOSE i \in fits : \A j \in fits : i <= j

place_first_fit(windows, dur) ==
    LET i == first_fitting(windows, dur)
    IN IF i = 0 THEN [got |-> None, windows |-> windows]
       ELSE LET start == windows[i][1]
                end == windows[i][1] + dur
            IN [got |-> <<start, end>>,
                windows |-> cut_window(windows, i, start, end)]

-----------------------------------------------------------------------------
(* database.py: rows and queries.                                          *)
(*   task          [id, user_id, date, start_time, estimated_minutes, done] *)
(*                 start_time: None, Dashes or <<h, m>>;                    *)
(*                 estimated_minutes: None or <<n>>                         *)
(*   availability  [user_id, date, start_time, end_time]                    *)
(*   busy block    [user_id, date, start_time, end_time]                    *)
(*   plan          [id, user_id, date, version, is_locked]                  *)
(*   plan item     [plan_id, task_id, start_time, end_time]                 *)
(* A user row's id is identified with its tg_id.                            *)

plans_of(P, user_id, date_obj) ==
    {p \in P : p.user_id = user_id /\ p.date = date_obj}

\* Mutant of current_plan: the filter on the date is missing.
current_plan_any_date(P, user_id, date_obj) ==
    LET rows == {p \in P : p.user_id = user_id}
    IN IF rows = {} THEN <<>>
       ELSE <<CHOOSE p \in rows : \A q \in rows : q.version <= p.version>>

\* Mutant of current_plan: the order is ascending, the lowest version is found.
current_plan_lowest(P, user_id, date_obj) ==
    LET rows == plans_of(P, user_id, date_obj)
    IN IF rows = {} THEN <<>>
       ELSE <<CHOOSE p \in rows : \A q \in rows : q.version >= p.version>>

\* _current_plan: the row with the highest version, as <<row>>, or <<>> for None.
current_plan(P, user_id, date_obj) ==
    LET rows == plans_of(P, user_id, date_obj)
    IN IF rows = {} THEN <<>>
       ELSE <<CHOOSE p \in rows : \A q \in rows : q.version <= p.version>>

\* generate_plan, line 635
next_version_of(cur) == IF cur # <<>> THEN cur[1].version + 1 ELSE 1

\* The primary key the store gives a new plan row (rows are never deleted).
new_plan_id(P) == Cardinality(P) + 1

\* Mutant of uq_plan_version: the constraint is absent.
uq_plan_version_absent(P, row) == TRUE

\* UniqueConstraint uq_plan_version: may this row be inserted?
uq_plan_version(P, row) ==
    ~ \E q \in P : q.user_id = row.user_id /\ q.date = row.date
                   /\ q.version = row.version

\* The key of ORDER BY start_time ASC NULLS LAST, id ASC.
task_order_key(t) ==
    IF t.start_time = None THEN <<1, 0, 0, t.id>>
    ELSE <<0, t.start_time[1], t.start_time[2], t.id>>

\* Mutant of pending_tasks: the filter on done is missing.
pending_tasks_with_done(T, user_id, date_obj) ==
    LET rows == {t \in T : t.user_id = user_id /\ t.date = date_obj}
        listed == SetToSeq(rows)
    IN Vals(SortByKey([i \in DOMAIN listed |->
                         [key |-> task_order_key(listed[i]), val |-> listed[i]]]))

\* generate_plan, lines 646-649: the TODO tasks of the date, in query order.
pending_tasks(T, user_id, date_obj) ==
    LET rows == {t \in T : t.user_id = user_id /\ t.date = date_obj /\ ~t.done}
        listed == SetToSeq(rows)
    IN Vals(SortByKey([i \in DOMAIN listed |->
                         [key |-> task_order_key(listed[i]), val |-> listed[i]]]))

\* get_availability_and_busy, lines 598-599: the rows the availability query finds.
availability_rows(A, user_id, date_obj) ==
    {a \in A : a.user_id = user_id /\ a.date = date_obj}

\* get_availability_and_busy, lines 600-601
busy_of(B, user_id, date_obj) ==
    LET mine == SelectSeq(B, LAMBDA b : b.user_id = user_id /\ b.date = date_obj)
    IN [i \in DOMAIN mine |-> <<mine[i].start_time, mine[i].end_time>>]

\* Mutant of avail_or_default: the default window ends at 10:00.
avail_or_default_until_ten(avail) ==
    IF avail = None THEN << <<9, 0>>, <<10, 0>> >> ELSE avail

\* generate_plan, lines 652-654: avail is None (<<>>) or <<start, end>>
avail_or_default(avail) ==
    IF avail = None
    THEN << <<DefaultAvailStartHour, 0>>, <<DefaultAvailEndHour, 0>> >>
    ELSE avail

\* generate_plan, lines 659-662
busy_ranges_of(busy) ==
    LET r == [i \in DOMAIN busy |->
                <<hhmm_to_minutes(busy[i][1]), hhmm_to_minutes(busy[i][2])>>]
    IN Vals(SortByKey([i \in DOMAIN r |-> [key |-> r[i], val |-> r[i]]]))

\* Mutant of is_free: the loop over the busy ranges is missing.
is_free_ignoring_busy(slot_start, slot_end, avail_start, avail_end, busy_ranges) ==
    ~(slot_start < avail_start \/ slot_end > avail_end)

\* generate_plan, lines 664-670
is_free(slot_start, slot_end, avail_start, avail_end, busy_ranges) ==
    /\ ~(slot_start < avail_start \/ slot_end > avail_end)
    /\ \A i \in DOMAIN busy_ranges :
          slot_end <= busy_ranges[i][1] \/ slot_start >= busy_ranges[i][2]

\* generate_plan, line 674
dur_of(t) ==
    IF t.estimated_minutes = None \/ t.estimated_minutes[1] = 0
    THEN DefaultMinutes
    ELSE t.estimated_minutes[1]

\* generate_plan, line 676
has_fixed_time(t) == t.start_time # None /\ t.start_time # Dashes

\* Mutant of probe_from: the probe advances by 10.
RECURSIVE probe_from_step_ten(_, _, _, _, _)
probe_from_step_ten(probe, dur, avail_start, avail_end, busy_ranges) ==
    IF ~(probe + dur <= avail_end) THEN <<>>
    ELSE IF is_free(probe, probe + dur, avail_start, avail_end, busy_ranges)
         THEN <<probe>>
         ELSE probe_from_step_ten(probe + 10, dur, avail_start, avail_end, busy_ranges)

\* generate_plan, lines 685-692: the first free probe position from probe on,
\* as <<position>>, or <<>> when the loop ends without placing.
RECURSIVE probe_from(_, _, _, _, _)
probe_from(probe, dur, avail_start, avail_end, busy_ranges) ==
    IF ~(probe + dur <= avail_end) THEN <<>>
    ELSE IF is_free(probe, probe + dur, avail_start, avail_end, busy_ranges)
         THEN <<probe>>
         ELSE probe_from(probe + ProbeStep, dur, avail_start, avail_end, busy_ranges)

item_row(plan_id, task_id, s, e) ==
    [plan_id |-> plan_id, task_id |-> task_id,
     start_time |-> db_minutes_to_hhmm(s), end_time |-> db_minutes_to_hhmm(e)]

\* Mutant of placed_at_fixed: the is_free test is missing.
placed_at_fixed_unchecked(t, avail_start, avail_end, busy_ranges) ==
    has_fixed_time(t)

\* generate_plan, lines 675-681: is the task put at its own start time?
placed_at_fixed(t, avail_start, avail_end, busy_ranges) ==
    /\ has_fixed_time(t)
    /\ is_free(hhmm_to_minutes(t.start_time),
               hhmm_to_minutes(t.start_time) + dur_of(t),
               avail_start, avail_end, busy_ranges)

\* generate_plan, lines 672-695: the loop over the tasks from index i on.
\* The result is [items |-> the added rows in order, cursor |-> the last cursor].
RECURSIVE schedule_loop(_, _, _, _, _, _, _, _)
schedule_loop(ts, i, cursor, items, plan_id, avail_start, avail_end, busy_ranges) ==
    IF i > Len(ts) THEN [items |-> items, cursor |-> cursor]
    ELSE LET t == ts[i]
             dur == dur_of(t)
         IN IF placed_at_fixed(t, avail_start, avail_end, busy_ranges)
            THEN LET s == hhmm_to_minutes(t.start_time)
                 IN schedule_loop(ts, i + 1, cursor,
                                  Append(items, item_row(plan_id, t.id, s, s + dur)),
                                  plan_id, avail_start, avail_end, busy_ranges)
            ELSE LET got == probe_from(cursor, dur, avail_start, avail_end, busy_ranges)
                 IN IF got # <<>>
                    THEN schedule_loop(ts, i + 1, got[1] + dur,
                                       Append(items,
                                              item_row(plan_id, t.id, got[1], got[1] + dur)),
                                       plan_id, avail_start, avail_end, busy_ranges)
                    ELSE schedule_loop(ts, i + 1, cursor, items,
                                       plan_id, avail_start, avail_end, busy_ranges)

\* generate_plan, lines 656-695: the plan items computed for plan row plan_id
\* from the task list, the availability (None or a pair) and the busy list read.
compute_items(plan_id, ts, avail, busy) ==
    LET a == avail_or_default(avail)
        avail_start == hhmm_to_minutes(a[1])
        avail_end == hhmm_to_minutes(a[2])
    IN schedule_loop(ts, 1, avail_start, <<>>, plan_id,
                     avail_start, avail_end, busy_ranges_of(busy)).items

\* Mutant of items_of: the filter on the plan id is missing.
items_of_any_plan(I, plan_id) == I

\* The rows of plan_items with this plan id (lines 642 and 711).
items_of(I, plan_id) == {it \in I : it.plan_id = plan_id}

\* generate_plan, lines 693-698: a task that did not fit is skipped and the
\* call returns the plan id alone; the ids it reports as unscheduled are none.
unscheduled_result(outcome) == <<>>

-----------------------------------------------------------------------------
(* The values the calls are made with. *)

TgIds == {1}
Dates == {1, 2}
Workers == {1, 2}

StartTimes == {None, Dashes, <<9, 0>>, <<9, 30>>}
EstimatedMinutes == {None, <<5>>, <<20>>, <<45>>}
AvailChoices == {<< <<9, 0>>, <<10, 0>> >>, << <<9, 10>>, <<9, 55>> >>}
BusyChoices == {<< <<9, 20>>, <<9, 40>> >>, << <<9, 0>>, <<9, 30>> >>}

\* What add_task is called with in the store specification.
AddedStartTimes == {<<9, 0>>}
AddedMinutes == {None}

\* get_plan_items, lines 705-706: what it returns when there is no plan; also the
\* value part of the outcome of every call that returns no such tuple.
NoPlanItems == [plan_id |-> None, version |-> None, locked |-> FALSE, items |-> <<>>]

Outcome(op, tg, date_obj, result, id) ==
    [op |-> op, tg |-> tg, date |-> date_obj, result |-> result, id |-> id,
     value |-> NoPlanItems]

NoOutcome == Outcome("none", 0, 0, "None", 0)

\* start is not a local of the program: it keeps the tasks, availability and
\* busy tables as they were at the run's first read, for the properties.
\* deleted is the set of rows the session's DELETE statement removed, which
\* the database applies when the session commits.  cursor, i and items are
\* generate_plan's cursor, the index of the task its loop is at, and the
\* rows the loop has added to the session.
IdleSession ==
    [op |-> "none", pc |-> "idle", tg |-> 0, date |-> 0, cur |-> <<>>,
     plan_id |-> 0, tasks |-> <<>>, avail |-> None, busy |-> <<>>,
     result |-> "None", start |-> <<>>, deleted |-> {},
     cursor |-> 0, i |-> 0, items |-> <<>>]

IdleBuild ==
    [pc |-> "idle", tasks |-> <<>>, avail |-> None, busy |-> <<>>,
     windows |-> <<>>, fixed |-> <<>>, nonfixed |-> <<>>, i |-> 0,
     plan |-> <<>>, used |-> {}, not_scheduled |-> <<>>,
     ranges |-> <<>>, merged |-> <<>>]

-----------------------------------------------------------------------------
(* database.py: the calls, each running alone from start to end. *)

\* _get_or_create_user_id
get_or_create_user(U, tg) == U \cup {tg}

new_task_id(T) == Cardinality(T) + 1

add_task(tg, date_obj, time_str, estimated_minutes) ==
    LET id == new_task_id(tasks)
    IN /\ users' = get_or_create_user(users, tg)
       /\ tasks' = tasks \cup {[id |-> id, user_id |-> tg, date |-> date_obj,
                                start_time |-> time_str,
                                estimated_minutes |-> estimated_minutes,
                                done |-> FALSE]}
       /\ ret' = Outcome("add_task", tg, date_obj, "ok", id)
       /\ UNCHANGED <<availability, busy_blocks, plans, plan_items, sess, bp,
                      recurring_tasks>>

set_task_done(tg, task_id, done) ==
    LET found == {t \in tasks : t.id = task_id /\ t.user_id = tg}
    IN /\ users' = get_or_create_user(users, tg)
       /\ IF found = {}
          THEN /\ tasks' = tasks
               /\ ret' = Outcome("set_task_done", tg, 0, "False", task_id)
          ELSE /\ tasks' = {IF t \in found THEN [t EXCEPT !.done = done] ELSE t :
                              t \in tasks}
               /\ ret' = Outcome("set_task_done", tg, 0, "True", task_id)
       /\ UNCHANGED <<availability, busy_blocks, plans, plan_items, sess, bp,
                      recurring_tasks>>

\* Mutant of own_task: the owner is not looked at.
own_task_any_owner(T, tg, task_id) == {t \in T : t.id = task_id}

\* delete_task, move_task and edit_task, lines 262, 272 and 293: the task
\* with this id that belongs to the user, as a set of at most one row.
own_task(T, tg, task_id) == {t \in T : t.id = task_id /\ t.user_id = tg}

\* delete_task, lines 260-267: the commit fails on the foreign key of
\* plan_items.task_id (line 174) when a plan item refers to the task.
delete_task(tg, task_id) ==
    LET found == own_task(tasks, tg, task_id)
    IN /\ users' = get_or_create_user(users, tg)
       /\ IF found = {}
          THEN /\ tasks' = tasks
               /\ ret' = Outcome("delete_task", tg, 0, "False", task_id)
          ELSE IF \E it \in plan_items : it.task_id = task_id
          THEN /\ tasks' = tasks
               /\ ret' = Outcome("delete_task", tg, 0, "IntegrityError", task_id)
          ELSE /\ tasks' = tasks \ found
               /\ ret' = Outcome("delete_task", tg, 0, "True", task_id)
       /\ UNCHANGED <<availability, busy_blocks, plans, plan_items, sess, bp,
                      recurring_tasks>>

\* move_task, lines 270-277
move_task(tg, task_id, new_date) ==
    LET found == own_task(tasks, tg, task_id)
    IN /\ users' = get_or_create_user(users, tg)
       /\ IF found = {}
          THEN /\ tasks' = tasks
               /\ ret' = Outcome("move_task", tg, 0, "False", task_id)
          ELSE /\ tasks' = {IF t \in found THEN [t EXCEPT !.date = new_date] ELSE t :
                              t \in tasks}
               /\ ret' = Outcome("move_task", tg, 0, "True", task_id)
       /\ UNCHANGED <<availability, busy_blocks, plans, plan_items, sess, bp,
                      recurring_tasks>>

\* edit_task, lines 280-313: an argument that is None leaves its column as
\* it is.
edit_task(tg, task_id, time_str, estimated_minutes) ==
    LET found == own_task(tasks, tg, task_id)
    IN /\ users' = get_or_create_user(users, tg)
       /\ IF found = {}
          THEN /\ tasks' = tasks
               /\ ret' = Outcome("edit_task", tg, 0, "False", task_id)
          ELSE /\ tasks' =
                    {IF t \in found
                     THEN [t EXCEPT !.start_time =
                                        IF time_str # None THEN time_str ELSE @,
                                    !.estimated_minutes =
                                        IF estimated_minutes # None
                                        THEN estimated_minutes ELSE @]
                     ELSE t : t \in tasks}
               /\ ret' = Outcome("edit_task", tg, 0, "True", task_id)
       /\ UNCHANGED <<availability, busy_blocks, plans, plan_items, sess, bp,
                      recurring_tasks>>

set_availability(tg, date_obj, start_time, end_time) ==
    /\ users' = get_or_create_user(users, tg)
    /\ availability' =
          (availability \ availability_rows(availability, tg, date_obj))
          \cup {[user_id |-> tg, date |-> date_obj,
                 start_time |-> start_time, end_time |-> end_time]}
    /\ ret' = Outcome("set_availability", tg, date_obj, "None", 0)
    /\ UNCHANGED <<tasks, busy_blocks, plans, plan_items, sess, bp, recurring_tasks>>

add_busy(tg, date_obj, start_time, end_time) ==
    /\ users' = get_or_create_user(users, tg)
    /\ busy_blocks' = Append(busy_blocks,
                             [user_id |-> tg, date |-> date_obj,
                              start_time |-> start_time, end_time |-> end_time])
    /\ ret' = Outcome("add_busy", tg, date_obj, "None", 0)
    /\ UNCHANGED <<tasks, availability, plans, plan_items, sess, bp, recurring_tasks>>

\* Mutant of locked_row: the flag is not set.
locked_row_unset(p) == p

\* lock_plan, line 622: the row p with its flag set.
locked_row(p) == [p EXCEPT !.is_locked = TRUE]

lock_plan(tg, date_obj) ==
    LET p == current_plan(plans, tg, date_obj)
    IN /\ users' = get_or_create_user(users, tg)
       /\ IF p = <<>>
          THEN /\ plans' = plans
               /\ ret' = Outcome("lock_plan", tg, date_obj, "False", 0)
          ELSE /\ plans' = (plans \ {p[1]}) \cup {locked_row(p[1])}
               /\ ret' = Outcome("lock_plan", tg, date_obj, "True", p[1].id)
       /\ UNCHANGED <<tasks, availability, busy_blocks, plan_items, sess, bp,
                      recurring_tasks>>

\* Mutant of raises_plan_locked: the lock is not looked at.
raises_plan_locked_never(cur) == FALSE

\* generate_plan, lines 632-633
raises_plan_locked(cur) == cur # <<>> /\ cur[1].is_locked

\* generate_plan, line 636
new_plan_row(P, tg, date_obj, cur) ==
    [id |-> new_plan_id(P), user_id |-> tg, date |-> date_obj,
     version |-> next_version_of(cur), is_locked |-> FALSE]

\* get_availability_and_busy, line 599: None or the pair of the one row found.
avail_of(rows) ==
    IF rows = {} THEN None
    ELSE LET a == CHOOSE r \in rows : TRUE IN <<a.start_time, a.end_time>>

generate_plan(tg, date_obj) ==
    LET cur == current_plan(plans, tg, date_obj)
        p == new_plan_row(plans, tg, date_obj, cur)
        rows == availability_rows(availability, tg, date_obj)
        items == compute_items(p.id, pending_tasks(tasks, tg, date_obj),
                               avail_of(rows), busy_of(busy_blocks, tg, date_obj))
    IN /\ users' = get_or_create_user(users, tg)
       /\ IF raises_plan_locked(cur)
          THEN /\ UNCHANGED <<plans, plan_items, recurring_tasks>>
               /\ ret' = Outcome("generate_plan", tg, date_obj, "PLAN_LOCKED", 0)
          ELSE IF ~uq_plan_version(plans, p)
          THEN /\ UNCHANGED <<plans, plan_items, recurring_tasks>>
               /\ ret' = Outcome("generate_plan", tg, date_obj, "IntegrityError", 0)
          ELSE IF Cardinality(rows) > 1
          THEN /\ plans' = plans \cup {p}
               /\ plan_items' = plan_items \ items_of(plan_items, p.id)
               /\ ret' = Outcome("generate_plan", tg, date_obj,
                                 "MultipleResultsFound", 0)
          ELSE /\ plans' = plans \cup {p}
               /\ plan_items' = (plan_items \ items_of(plan_items, p.id)) \cup Range(items)
               /\ ret' = Outcome("generate_plan", tg, date_obj, "ok", p.id)
       /\ UNCHANGED <<tasks, availability, busy_blocks, sess, bp, recurring_tasks>>

\* get_plan_items, lines 708-715: the items of plan row p joined with their
\* tasks, ordered by start_time (rows with equal start times in some order).
plan_item_dtos(I, T, p) ==
    LET rows == {it \in items_of(I, p.id) : \E t \in T : t.id = it.task_id}
        listed == SetToSeq(rows)
        sorted == Vals(SortByKey([i \in DOMAIN listed |->
                                    [key |-> listed[i].start_time, val |-> listed[i]]]))
    IN [i \in DOMAIN sorted |->
          [task_id |-> sorted[i].task_id, start_time |-> sorted[i].start_time,
           end_time |-> sorted[i].end_time]]

\* get_plan_items, lines 704-716: the tuple it returns.
shown_plan(P, I, T, tg, date_obj) ==
    LET p == current_plan(P, tg, date_obj)
    IN IF p = <<>> THEN NoPlanItems
       ELSE [plan_id |-> <<p[1].id>>, version |-> <<p[1].version>>,
             locked |-> p[1].is_locked, items |-> plan_item_dtos(I, T, p[1])]

get_plan_items(tg, date_obj) ==
    /\ users' = get_or_create_user(users, tg)
    /\ ret' = [Outcome("get_plan_items", tg, date_obj, "ok", 0) EXCEPT
                 !.value = shown_plan(plans, plan_items, tasks, tg, date_obj)]
    /\ UNCHANGED <<tasks, availability, busy_blocks, plans, plan_items, sess, bp,
                   recurring_tasks>>

\* date.weekday() of the model's dates, line 542: date 1 is a Friday (4) and
\* date 2 the Saturday after it (5).
weekday_of(date_obj) == (date_obj + 3) % 7

\* add_repeat, lines 500-517
add_repeat(tg, kind, weekday, time_str) ==
    LET id == Cardinality(recurring_tasks) + 1
    IN /\ users' = get_or_create_user(users, tg)
       /\ recurring_tasks' = recurring_tasks \cup
              {[id |-> id, user_id |-> tg, kind |-> kind, weekday |-> weekday,
                time_str |-> time_str, estimated_minutes |-> None,
                is_active |-> TRUE]}
       /\ ret' = Outcome("add_repeat", tg, 0, "ok", id)
       /\ UNCHANGED <<tasks, availability, busy_blocks, plans, plan_items, sess, bp>>

\* ensure_repeats_generated, lines 545-555: the active templates of the user
\* that the select returns for the date.
repeats_for(R, tg, date_obj) ==
    LET dow == weekday_of(date_obj)
    IN {r \in R : /\ r.user_id = tg
                  /\ r.is_active
                  /\ \/ r.kind = "daily"
                     \/ r.kind = "weekdays" /\ dow <= 4
                     \/ r.kind = "weekly" /\ r.weekday = <<dow>>}

\* ensure_repeats_generated, lines 559-571: the task row added for template
\* r, the k-th of the batch.
repeat_task_row(T, r, k, date_obj) ==
    [id |-> Cardinality(T) + k, user_id |-> r.user_id, date |-> date_obj,
     start_time |-> r.time_str, estimated_minutes |-> r.estimated_minutes,
     done |-> FALSE, source_repeat_id |-> <<r.id>>]

\* uq_task_repeat_per_day, lines 98-101: no row of T has the user, date and
\* source_repeat_id of row t.
uq_task_repeat_per_day(T, t) ==
    ~\E u \in T : /\ "source_repeat_id" \in DOMAIN u
                  /\ u.user_id = t.user_id
                  /\ u.date = t.date
                  /\ u.source_repeat_id = t.source_repeat_id

\* ensure_repeats_generated, lines 540-577: one row per selected template is
\* added and all are committed together; when the commit fails on
\* uq_task_repeat_per_day the whole batch is rolled back and the call
\* returns as usual.
ensure_repeats_generated(tg, date_obj) ==
    LET repeats == SetToSeq(repeats_for(recurring_tasks, tg, date_obj))
        added == {repeat_task_row(tasks, repeats[k], k, date_obj) : k \in DOMAIN repeats}
    IN /\ users' = get_or_create_user(users, tg)
       /\ tasks' = IF \A t \in added : uq_task_repeat_per_day(tasks, t)
                   THEN tasks \cup added
                   ELSE tasks
       /\ ret' = Outcome("ensure_repeats_generated", tg, date_obj, "None", 0)
       /\ UNCHANGED <<recurring_tasks, availability, busy_blocks, plans, plan_items,
                      sess, bp>>

-----------------------------------------------------------------------------
(* database.py: generate_plan and lock_plan run by concurrent workers      *)
(* (bot processes on one database), one step per statement or commit.  A   *)
(* worker's session keeps what its statements read: cur, the new plan id,  *)
(* the task list, the availability and the busy list.                      *)

Idle(w) == sess[w].pc \in {"idle", "done"}

\* The call returns or raises: its session is over.
ended(s, result) == [s EXCEPT !.pc = "done", !.result = result]

\* generate_plan, line 629
gen_begin(w, tg, date_obj) ==
    /\ Idle(w)
    /\ users' = get_or_create_user(users, tg)
    /\ sess' = [sess EXCEPT ![w] = [IdleSession EXCEPT !.op = "generate_plan",
                                       !.pc = "read_cur", !.tg = tg, !.date = date_obj]]
    /\ UNCHANGED <<tasks, availability, busy_blocks, plans, plan_items, ret, bp,
                   recurring_tasks>>

\* generate_plan, lines 631-633
gen_read_cur(w) ==
    /\ sess[w].op = "generate_plan" /\ sess[w].pc = "read_cur"
    /\ LET cur == current_plan(plans, sess[w].tg, sess[w].date)
       IN sess' = [sess EXCEPT ![w] =
                     IF raises_plan_locked(cur) THEN ended(@, "PLAN_LOCKED")
                     ELSE [@ EXCEPT !.cur = cur, !.pc = "commit_plan",
                                    !.start = <<tasks, availability, busy_blocks>>]]
    /\ UNCHANGED <<users, tasks, availability, busy_blocks, plans, plan_items, ret, bp,
                   recurring_tasks>>

\* generate_plan, lines 635-639: the commit fails on uq_plan_version.
gen_commit_plan(w) ==
    /\ sess[w].op = "generate_plan" /\ sess[w].pc = "commit_plan"
    /\ LET p == new_plan_row(plans, sess[w].tg, sess[w].date, sess[w].cur)
       IN IF uq_plan_version(plans, p)
          THEN /\ plans' = plans \cup {p}
               /\ sess' = [sess EXCEPT ![w] = [@ EXCEPT !.plan_id = p.id,
                                                        !.pc = "delete_items"]]
          ELSE /\ plans' = plans
               /\ sess' = [sess EXCEPT ![w] = ended(@, "IntegrityError")]
    /\ UNCHANGED <<users, tasks, availability, busy_blocks, plan_items, ret, bp,
                   recurring_tasks>>

\* generate_plan, lines 642-643
gen_delete_items(w) ==
    /\ sess[w].op = "generate_plan" /\ sess[w].pc = "delete_items"
    /\ plan_items' = plan_items \ items_of(plan_items, sess[w].plan_id)
    /\ sess' = [sess EXCEPT ![w] = [@ EXCEPT !.pc = "read_tasks"]]
    /\ UNCHANGED <<users, tasks, availability, busy_blocks, plans, ret, bp,
                   recurring_tasks>>

\* generate_plan, lines 646-649
gen_read_tasks(w) ==
    /\ sess[w].op = "generate_plan" /\ sess[w].pc = "read_tasks"
    /\ sess' = [sess EXCEPT ![w] =
                  [@ EXCEPT !.tasks = pending_tasks(tasks, sess[w].tg, sess[w].date),
                            !.pc = "read_avail"]]
    /\ UNCHANGED <<users, tasks, availability, busy_blocks, plans, plan_items, ret, bp,
                   recurring_tasks>>

\* get_availability_and_busy, lines 597-599: scalar_one_or_none raises on two rows.
gen_read_avail(w) ==
    /\ sess[w].op = "generate_plan" /\ sess[w].pc = "read_avail"
    /\ LET rows == availability_rows(availability, sess[w].tg, sess[w].date)
       IN sess' = [sess EXCEPT ![w] =
                     IF Cardinality(rows) > 1 THEN ended(@, "MultipleResultsFound")
                     ELSE [@ EXCEPT !.avail = avail_of(rows), !.pc = "read_busy"]]
    /\ UNCHANGED <<users, tasks, availability, busy_blocks, plans, plan_items, ret, bp,
                   recurring_tasks>>

\* get_availability_and_busy, lines 600-601
gen_read_busy(w) ==
    /\ sess[w].op = "generate_plan" /\ sess[w].pc = "read_busy"
    /\ sess' = [sess EXCEPT ![w] =
                  [@ EXCEPT !.busy = busy_of(busy_blocks, sess[w].tg, sess[w].date),
                            !.pc = "commit_items"]]
    /\ UNCHANGED <<users, tasks, availability, busy_blocks, plans, plan_items, ret, bp,
                   recurring_tasks>>

\* generate_plan, lines 656-698: the items are computed from what the session
\* read and committed together.
gen_commit_items(w) ==
    /\ sess[w].op = "generate_plan" /\ sess[w].pc = "commit_items"
    /\ plan_items' = plan_items
                     \cup Range(compute_items(sess[w].plan_id, sess[w].tasks,
                                              sess[w].avail, sess[w].busy))
    /\ sess' = [sess EXCEPT ![w] = ended(@, "ok")]
    /\ UNCHANGED <<users, tasks, availability, busy_blocks, plans, ret, bp,
                   recurring_tasks>>

\* generate_plan, lines 652-672: the loop is entered with the cursor at the
\* start of the window.
gen_loop_begin(w) ==
    /\ sess[w].op = "generate_plan" /\ sess[w].pc = "commit_items"
    /\ sess' = [sess EXCEPT ![w] =
                  [@ EXCEPT !.cursor = hhmm_to_minutes(avail_or_default(sess[w].avail)[1]),
                            !.i = 1, !.items = <<>>, !.pc = "loop"]]
    /\ UNCHANGED <<users, tasks, availability, busy_blocks, plans, plan_items, ret, bp,
                   recurring_tasks>>

\* generate_plan, lines 673-695: one turn of the loop, for task tasks[i].
gen_loop_task(w) ==
    /\ sess[w].op = "generate_plan" /\ sess[w].pc = "loop"
    /\ sess[w].i <= Len(sess[w].tasks)
    /\ LET t == sess[w].tasks[sess[w].i]
           dur == dur_of(t)
           a == avail_or_default(sess[w].avail)
           avail_start == hhmm_to_minutes(a[1])
           avail_end == hhmm_to_minutes(a[2])
           busy_ranges == busy_ranges_of(sess[w].busy)
           got == probe_from(sess[w].cursor, dur, avail_start, avail_end, busy_ranges)
       IN sess' = [sess EXCEPT ![w] =
                     IF placed_at_fixed(t, avail_start, avail_end, busy_ranges)
                     THEN [@ EXCEPT !.items =
                               Append(@, item_row(sess[w].plan_id, t.id,
                                                  hhmm_to_minutes(t.start_time),
                                                  hhmm_to_minutes(t.start_time) + dur)),
                                    !.i = @ + 1]
                     ELSE IF got # <<>>
                     THEN [@ EXCEPT !.items =
                               Append(@, item_row(sess[w].plan_id, t.id,
                                                  got[1], got[1] + dur)),
                                    !.cursor = got[1] + dur,
                                    !.i = @ + 1]
                     ELSE [@ EXCEPT !.i = @ + 1]]
    /\ UNCHANGED <<users, tasks, availability, busy_blocks, plans, plan_items, ret, bp,
                   recurring_tasks>>

\* generate_plan, lines 697-698: the rows the loop added are committed.
gen_loop_commit(w) ==
    /\ sess[w].op = "generate_plan" /\ sess[w].pc = "loop"
    /\ sess[w].i > Len(sess[w].tasks)
    /\ plan_items' = plan_items \cup Range(sess[w].items)
    /\ sess' = [sess EXCEPT ![w] = ended(@, "ok")]
    /\ UNCHANGED <<users, tasks, availability, busy_blocks, plans, ret, bp,
                   recurring_tasks>>

\* lock_plan, line 618
lock_begin(w, tg, date_obj) ==
    /\ Idle(w)
    /\ users' = get_or_create_user(users, tg)
    /\ sess' = [sess EXCEPT ![w] = [IdleSession EXCEPT !.op = "lock_plan",
                                       !.pc = "read_cur", !.tg = tg, !.date = date_obj]]
    /\ UNCHANGED <<tasks, availability, busy_blocks, plans, plan_items, ret, bp,
                   recurring_tasks>>

\* lock_plan, lines 619-621
lock_read_cur(w) ==
    /\ sess[w].op = "lock_plan" /\ sess[w].pc = "read_cur"
    /\ LET p == current_plan(plans, sess[w].tg, sess[w].date)
       IN sess' = [sess EXCEPT ![w] =
                     IF p = <<>> THEN ended(@, "False")
                     ELSE [@ EXCEPT !.cur = p, !.pc = "commit_lock"]]
    /\ UNCHANGED <<users, tasks, availability, busy_blocks, plans, plan_items, ret, bp,
                   recurring_tasks>>

\* lock_plan, lines 622-624: the UPDATE of the row that was read, by its id.
lock_commit(w) ==
    /\ sess[w].op = "lock_plan" /\ sess[w].pc = "commit_lock"
    /\ plans' = {IF q.id = sess[w].cur[1].id THEN locked_row(q) ELSE q : q \in plans}
    /\ sess' = [sess EXCEPT ![w] = ended(@, "True")]
    /\ UNCHANGED <<users, tasks, availability, busy_blocks, plan_items, ret, bp,
                   recurring_tasks>>

\* get_availability_and_busy, lines 596-601, running alone: scalar_one_or_none
\* raises when the select finds two rows.
get_availability_and_busy(tg, date_obj) ==
    /\ users' = get_or_create_user(users, tg)
    /\ ret' = Outcome("get_availability_and_busy", tg, date_obj,
                      IF Cardinality(availability_rows(availability, tg, date_obj)) > 1
                      THEN "MultipleResultsFound" ELSE "ok", 0)
    /\ UNCHANGED <<tasks, availability, busy_blocks, plans, plan_items, sess, bp,
                   recurring_tasks>>

\* set_availability, line 582
avail_begin(w, tg, date_obj, start_time, end_time) ==
    /\ Idle(w)
    /\ users' = get_or_create_user(users, tg)
    /\ sess' = [sess EXCEPT ![w] = [IdleSession EXCEPT !.op = "set_availability",
                                       !.pc = "delete", !.tg = tg, !.date = date_obj,
                                       !.avail = <<start_time, end_time>>]]
    /\ UNCHANGED <<tasks, availability, busy_blocks, plans, plan_items, ret, bp,
                   recurring_tasks>>

\* set_availability, lines 584-585: the DELETE removes the rows committed by
\* then, inside the session's transaction.
avail_delete(w) ==
    /\ sess[w].op = "set_availability" /\ sess[w].pc = "delete"
    /\ sess' = [sess EXCEPT ![w] =
                  [@ EXCEPT !.deleted = availability_rows(availability, sess[w].tg,
                                                          sess[w].date),
                            !.pc = "commit"]]
    /\ UNCHANGED <<users, tasks, availability, busy_blocks, plans, plan_items, ret, bp,
                   recurring_tasks>>

\* set_availability, lines 586-587: the INSERT and the commit of the
\* transaction; it fails as a whole on uq_avail (line 147) when the same row
\* is there.
avail_commit(w) ==
    /\ sess[w].op = "set_availability" /\ sess[w].pc = "commit"
    /\ LET kept == availability \ sess[w].deleted
           a == [user_id |-> sess[w].tg, date |-> sess[w].date,
                 start_time |-> sess[w].avail[1], end_time |-> sess[w].avail[2]]
       IN IF a \in kept
          THEN /\ availability' = availability
               /\ sess' = [sess EXCEPT ![w] = ended(@, "IntegrityError")]
          ELSE /\ availability' = kept \cup {a}
               /\ sess' = [sess EXCEPT ![w] = ended(@, "None")]
    /\ UNCHANGED <<users, tasks, busy_blocks, plans, plan_items, ret, bp,
                   recurring_tasks>>

-----------------------------------------------------------------------------
(* ai_engine.py build_plan, one step per placement.                        *)
(*   TaskIn       [id, duration_min, fixed_start_hhmm]                     *)
(*   PlanItemOut  [task_id, start_hhmm, end_hhmm]                          *)

\* Mutant of is_fixed: no task counts as fixed.
is_fixed_never(t) == FALSE

\* build_plan, lines 124-125: a None (or empty) fixed_start_hhmm is falsy.
is_fixed(t) == t.fixed_start_hhmm # None

\* build_plan, lines 118-125
build_plan_start ==
    /\ bp.pc = "ready"
    /\ LET fixed == SelectSeq(bp.tasks, is_fixed)
           nonfixed == SelectSeq(bp.tasks, LAMBDA t : ~is_fixed(t))
       IN bp' = [bp EXCEPT !.windows = free_windows(bp.avail, bp.busy),
                           !.fixed = fixed, !.nonfixed = nonfixed, !.i = 1,
                           !.pc = IF fixed # <<>> THEN "fixed"
                                  ELSE IF nonfixed # <<>> THEN "nonfixed"
                                  ELSE "sort"]
    /\ UNCHANGED <<users, tasks, availability, busy_blocks, plans, plan_items, ret, sess,
                   recurring_tasks>>

\* build_plan, lines 130-133 and 138-141: the run after task t got `got`.
with_placement(b, t, placed) ==
    IF placed.got # None
    THEN [b EXCEPT !.windows = placed.windows,
                   !.plan = Append(b.plan,
                                   [task_id |-> t.id,
                                    start_hhmm |-> minutes_to_hhmm(placed.got[1]),
                                    end_hhmm |-> minutes_to_hhmm(placed.got[2])]),
                   !.used = b.used \cup {t.id}]
    ELSE [b EXCEPT !.windows = placed.windows]

\* build_plan, lines 127-133: one turn of the loop over the fixed tasks.
build_plan_fixed ==
    /\ bp.pc = "fixed"
    /\ LET t == bp.fixed[bp.i]
           s == hhmm_to_minutes(t.fixed_start_hhmm)
           b == with_placement(bp, t, place_fixed(bp.windows, s, t.duration_min))
       IN bp' = IF bp.i < Len(bp.fixed)
                THEN [b EXCEPT !.i = bp.i + 1]
                ELSE [b EXCEPT !.i = 1,
                               !.pc = IF bp.nonfixed # <<>> THEN "nonfixed" ELSE "sort"]
    /\ UNCHANGED <<users, tasks, availability, busy_blocks, plans, plan_items, ret, sess,
                   recurring_tasks>>

\* build_plan, lines 136-141: one turn of the loop over the other tasks.
build_plan_nonfixed ==
    /\ bp.pc = "nonfixed"
    /\ LET t == bp.nonfixed[bp.i]
           b == with_placement(bp, t, place_first_fit(bp.windows, t.duration_min))
       IN bp' = IF bp.i < Len(bp.nonfixed)
                THEN [b EXCEPT !.i = bp.i + 1]
                ELSE [b EXCEPT !.i = 1, !.pc = "sort"]
    /\ UNCHANGED <<users, tasks, availability, busy_blocks, plans, plan_items, ret, sess,
                   recurring_tasks>>

\* Mutant of sort_plan: the list is left in placement order.
sort_plan_unsorted(plan) == plan

\* build_plan, line 143: a stable sort by start time in minutes.
sort_plan(plan) ==
    Vals(SortByKey([i \in DOMAIN plan |->
                      [key |-> <<hhmm_to_minutes(plan[i].start_hhmm)>>,
                       val |-> plan[i]]]))

\* Mutant of not_scheduled_of: the used set is not looked at.
not_scheduled_all(ts, used) == [i \in DOMAIN ts |-> ts[i].id]

\* build_plan, line 144
not_scheduled_of(ts, used) ==
    LET left == SelectSeq(ts, LAMBDA t : t.id \notin used)
    IN [i \in DOMAIN left |-> left[i].id]

\* build_plan, lines 143-145
build_plan_return ==
    /\ bp.pc = "sort"
    /\ bp' = [bp EXCEPT !.plan = sort_plan(bp.plan),
                        !.not_scheduled = not_scheduled_of(bp.tasks, bp.used),
                        !.pc = "done"]
    /\ UNCHANGED <<users, tasks, availability, busy_blocks, plans, plan_items, ret, sess,
                   recurring_tasks>>

-----------------------------------------------------------------------------
(* The store specification: the calls of database.py made one after        *)
(* another on a store that starts empty (init_db).                          *)

Init ==
    /\ users = {}
    /\ tasks = {}
    /\ availability = {}
    /\ busy_blocks = <<>>
    /\ plans = {}
    /\ plan_items = {}
    /\ ret = NoOutcome
    /\ sess = [w \in Workers |-> IdleSession]
    /\ recurring_tasks = {}
    /\ bp = IdleBuild

\* The bound on the versions of one date; a call on a locked date is tried too.
may_generate(tg, date_obj) ==
    \/ Cardinality(plans_of(plans, tg, date_obj)) < MaxVersions
    \/ /\ Cardinality(plans_of(plans, tg, date_obj)) <= MaxVersions
       /\ raises_plan_locked(current_plan(plans, tg, date_obj))

Next ==
    \E tg \in TgIds, d \in Dates :
        \/ /\ Cardinality(tasks) < MaxStoreTasks
           /\ \E s \in AddedStartTimes, m \in AddedMinutes : add_task(tg, d, s, m)
        \/ \E id \in 1..MaxStoreTasks, done \in BOOLEAN : set_task_done(tg, id, done)
        \/ may_generate(tg, d) /\ generate_plan(tg, d)
        \/ lock_plan(tg, d)

Spec == Init /\ [][Next]_vars

\* The store specification with the reading call get_plan_items as well.
NextShow ==
    \/ Next
    \/ \E tg \in TgIds, d \in Dates : get_plan_items(tg, d)

SpecShow == Init /\ [][NextShow]_vars

-----------------------------------------------------------------------------
(* The scheduling specification: the store of one user and date holds any  *)
(* tasks, availability and busy blocks of the bounded sets below, and both *)
(* generation paths run on them: generate_plan on the store, build_plan on *)
(* the same tasks, window and busy list as arguments.                      *)

TaskKinds == [start_time : StartTimes, estimated_minutes : EstimatedMinutes]

SeqsUpTo(S, n) == UNION {[1..k -> S] : k \in 0..n}

task_row_of(kinds, i) ==
    [id |-> i, user_id |-> 1, date |-> 1, start_time |-> kinds[i].start_time,
     estimated_minutes |-> kinds[i].estimated_minutes, done |-> FALSE]

\* TaskIn for the same task: TaskIn.duration_min defaults to 30 (line 12), and
\* only a real "HH:MM" is passed as fixed_start_hhmm.
task_in_of(kinds, i) ==
    [id |-> i,
     duration_min |-> IF kinds[i].estimated_minutes = None THEN DefaultMinutes
                      ELSE kinds[i].estimated_minutes[1],
     fixed_start_hhmm |-> IF kinds[i].start_time = Dashes THEN None
                          ELSE kinds[i].start_time]

InitAlg ==
    \E kinds \in SeqsUpTo(TaskKinds, MaxTasks),
       avail \in {None} \cup AvailChoices,
       busy \in SeqsUpTo(BusyChoices, MaxBusy) :
        /\ users = {1}
        /\ tasks = {task_row_of(kinds, i) : i \in DOMAIN kinds}
        /\ availability = IF avail = None THEN {}
                          ELSE {[user_id |-> 1, date |-> 1,
                                 start_time |-> avail[1], end_time |-> avail[2]]}
        /\ busy_blocks = [i \in DOMAIN busy |->
                            [user_id |-> 1, date |-> 1,
                             start_time |-> busy[i][1], end_time |-> busy[i][2]]]
        /\ plans = {}
        /\ plan_items = {}
        /\ ret = NoOutcome
        /\ sess = [w \in Workers |-> IdleSession]
        /\ recurring_tasks = {}
        /\ bp = [IdleBuild EXCEPT
                    !.pc = "ready",
                    !.tasks = [i \in DOMAIN kinds |-> task_in_of(kinds, i)],
                    !.avail = avail_or_default(avail),
                    !.busy = busy]

NextAlg ==
    \/ plans = {} /\ generate_plan(1, 1)
    \/ build_plan_start
    \/ build_plan_fixed
    \/ build_plan_nonfixed
    \/ build_plan_return

SpecAlg == InitAlg /\ [][NextAlg]_vars

\* The scheduling specification with the reading call get_plan_items as well.
NextAlgShow ==
    \/ NextAlg
    \/ get_plan_items(1, 1)

SpecAlgShow == InitAlg /\ [][NextAlgShow]_vars

-----------------------------------------------------------------------------
(* The probe specification: one generate_plan run on the stores of the     *)
(* scheduling specification, one step per statement and per turn of its    *)
(* loop over the tasks.                                                    *)

NextProbe ==
    \/ plans = {} /\ sess[1].pc = "idle" /\ gen_begin(1, 1, 1)
    \/ gen_read_cur(1)
    \/ gen_commit_plan(1)
    \/ gen_delete_items(1)
    \/ gen_read_tasks(1)
    \/ gen_read_avail(1)
    \/ gen_read_busy(1)
    \/ gen_loop_begin(1)
    \/ gen_loop_task(1)
    \/ gen_loop_commit(1)

SpecProbe == InitAlg /\ [][NextProbe]_vars

-----------------------------------------------------------------------------
(* The concurrent specification: workers run generate_plan and lock_plan   *)
(* for user 1 and date 1 with their statements interleaved.  The store     *)
(* holds the user and any pending tasks of the bounded set; tasks,         *)
(* availability and busy blocks do not change.                             *)

InitConc ==
    \E kinds \in SeqsUpTo([start_time : AddedStartTimes \cup {None},
                           estimated_minutes : AddedMinutes], MaxStoreTasks) :
        /\ users = {1}
        /\ tasks = {task_row_of(kinds, i) : i \in DOMAIN kinds}
        /\ availability = {}
        /\ busy_blocks = <<>>
        /\ plans = {}
        /\ plan_items = {}
        /\ ret = NoOutcome
        /\ sess = [w \in Workers |-> IdleSession]
        /\ recurring_tasks = {}
        /\ bp = IdleBuild

NextConc ==
    \E w \in Workers :
        \/ may_generate(1, 1) /\ gen_begin(w, 1, 1)
        \/ gen_read_cur(w)
        \/ gen_commit_plan(w)
        \/ gen_delete_items(w)
        \/ gen_read_tasks(w)
        \/ gen_read_avail(w)
        \/ gen_read_busy(w)
        \/ gen_commit_items(w)
        \/ lock_begin(w, 1, 1)
        \/ lock_read_cur(w)
        \/ lock_commit(w)

SpecConc == InitConc /\ [][NextConc]_vars

-----------------------------------------------------------------------------
(* The snapshot specification: one worker runs generate_plan for user 1    *)
(* and date 1 statement by statement while other commands (add_task,       *)
(* set_task_done, set_availability, add_busy, lock_plan) run to their      *)
(* commit between its statements.                                          *)

NextSnapshot ==
    \/ may_generate(1, 1) /\ gen_begin(1, 1, 1)
    \/ gen_read_cur(1)
    \/ gen_commit_plan(1)
    \/ gen_delete_items(1)
    \/ gen_read_tasks(1)
    \/ gen_read_avail(1)
    \/ gen_read_busy(1)
    \/ gen_commit_items(1)
    \/ /\ Cardinality(tasks) < MaxStoreTasks
       /\ \E s \in AddedStartTimes, m \in AddedMinutes : add_task(1, 1, s, m)
    \/ \E id \in 1..MaxStoreTasks, done \in BOOLEAN : set_task_done(1, id, done)
    \/ \E a \in AvailChoices : set_availability(1, 1, a[1], a[2])
    \/ /\ Len(busy_blocks) < MaxBusy
       /\ \E b \in BusyChoices : add_busy(1, 1, b[1], b[2])
    \/ lock_plan(1, 1)

SpecSnapshot == InitConc /\ [][NextSnapshot]_vars

-----------------------------------------------------------------------------
(* The availability specification: two workers run set_availability, one   *)
(* step per statement, and get_availability_and_busy reads between them.   *)

NextAvail ==
    \/ \E w \in Workers, tg \in TgIds, d \in Dates, a \in AvailChoices :
          avail_begin(w, tg, d, a[1], a[2])
    \/ \E w \in Workers : avail_delete(w)
    \/ \E w \in Workers : avail_commit(w)
    \/ \E tg \in TgIds, d \in Dates : get_availability_and_busy(tg, d)

SpecAvail == Init /\ [][NextAvail]_vars

-----------------------------------------------------------------------------
(* The free-window specification: free_windows, and merge_ranges inside it, *)
(* on drawn availability windows and busy lists with start < end.  ranges  *)
(* is busy_m as line 52 builds it, merged is what merge_ranges returns.    *)

RangePoints == {<<9, 0>>, <<9, 5>>, <<9, 15>>, <<9, 20>>, <<9, 30>>}

RangeIntervals ==
    {r \in RangePoints \X RangePoints : hhmm_to_minutes(r[1]) < hhmm_to_minutes(r[2])}

InitRanges ==
    \E avail \in RangeIntervals, busy \in SeqsUpTo(RangeIntervals, MaxRanges) :
        /\ users = {}
        /\ tasks = {}
        /\ availability = {}
        /\ busy_blocks = <<>>
        /\ plans = {}
        /\ plan_items = {}
        /\ ret = NoOutcome
        /\ sess = [w \in Workers |-> IdleSession]
        /\ recurring_tasks = {}
        /\ bp = [IdleBuild EXCEPT !.pc = "free_windows", !.avail = avail,
                                   !.busy = busy]

\* free_windows, lines 49-52
free_windows_begin ==
    /\ bp.pc = "free_windows"
    /\ bp' = [bp EXCEPT !.ranges = [i \in DOMAIN bp.busy |->
                                      <<hhmm_to_minutes(bp.busy[i][1]),
                                        hhmm_to_minutes(bp.busy[i][2])>>],
                        !.pc = "merge_ranges"]
    /\ UNCHANGED <<users, tasks, availability, busy_blocks, plans, plan_items, ret, sess,
                   recurring_tasks>>

\* free_windows, line 53
free_windows_merge ==
    /\ bp.pc = "merge_ranges"
    /\ bp' = [bp EXCEPT !.merged = merge_ranges(bp.ranges), !.pc = "subtract"]
    /\ UNCHANGED <<users, tasks, availability, busy_blocks, plans, plan_items, ret, sess,
                   recurring_tasks>>

\* free_windows, lines 55-68
free_windows_return ==
    /\ bp.pc = "subtract"
    /\ bp' = [bp EXCEPT !.windows =
                  long_enough(subtract_all(
                      << <<hhmm_to_minutes(bp.avail[1]), hhmm_to_minutes(bp.avail[2])>> >>,
                      bp.merged)),
                        !.pc = "returned"]
    /\ UNCHANGED <<users, tasks, availability, busy_blocks, plans, plan_items, ret, sess,
                   recurring_tasks>>

NextRanges == free_windows_begin \/ free_windows_merge \/ free_windows_return

SpecRanges == InitRanges /\ [][NextRanges]_vars

-----------------------------------------------------------------------------
(* The invalid-input specification: as the scheduling specification, but   *)
(* the tasks may have a duration of zero or less and the availability      *)
(* window and the busy blocks may have their start after their end.        *)

InvalidMinutes == {<<0>>, <<-10>>}
InvertedInterval == << <<9, 40>>, <<9, 20>> >>

InitInvalid ==
    \E kinds \in SeqsUpTo([start_time : {None, <<9, 0>>},
                           estimated_minutes : InvalidMinutes \cup {<<45>>}], MaxTasks),
       avail \in {None, InvertedInterval} \cup AvailChoices,
       busy \in SeqsUpTo({InvertedInterval}, MaxBusy) :
        /\ users = {1}
        /\ tasks = {task_row_of(kinds, i) : i \in DOMAIN kinds}
        /\ availability = IF avail = None THEN {}
                          ELSE {[user_id |-> 1, date |-> 1,
                                 start_time |-> avail[1], end_time |-> avail[2]]}
        /\ busy_blocks = [i \in DOMAIN busy |->
                            [user_id |-> 1, date |-> 1,
                             start_time |-> busy[i][1], end_time |-> busy[i][2]]]
        /\ plans = {}
        /\ plan_items = {}
        /\ ret = NoOutcome
        /\ sess = [w \in Workers |-> IdleSession]
        /\ recurring_tasks = {}
        /\ bp = [IdleBuild EXCEPT
                    !.pc = "ready",
                    !.tasks = [i \in DOMAIN kinds |-> task_in_of(kinds, i)],
                    !.avail = avail_or_default(avail),
                    !.busy = busy]

SpecInvalid == InitInvalid /\ [][NextAlg]_vars

-----------------------------------------------------------------------------
(* The fixed-time specification: as the scheduling specification, with     *)
(* tasks that ask for 09:00, 09:30 or 09:50 and last 5, 20 or 30 minutes.  *)

FixedStartTimes == {None, <<9, 0>>, <<9, 30>>, <<9, 50>>}
FixedMinutes == {None, <<5>>, <<20>>}

InitFixed ==
    \E kinds \in SeqsUpTo([start_time : FixedStartTimes,
                           estimated_minutes : FixedMinutes], MaxTasks),
       avail \in {None} \cup AvailChoices,
       busy \in SeqsUpTo(BusyChoices, MaxBusy) :
        /\ users = {1}
        /\ tasks = {task_row_of(kinds, i) : i \in DOMAIN kinds}
        /\ availability = IF avail = None THEN {}
                          ELSE {[user_id |-> 1, date |-> 1,
                                 start_time |-> avail[1], end_time |-> avail[2]]}
        /\ busy_blocks = [i \in DOMAIN busy |->
                            [user_id |-> 1, date |-> 1,
                             start_time |-> busy[i][1], end_time |-> busy[i][2]]]
        /\ plans = {}
        /\ plan_items = {}
        /\ ret = NoOutcome
        /\ sess = [w \in Workers |-> IdleSession]
        /\ recurring_tasks = {}
        /\ bp = [IdleBuild EXCEPT
                    !.pc = "ready",
                    !.tasks = [i \in DOMAIN kinds |-> task_in_of(kinds, i)],
                    !.avail = avail_or_default(avail),
                    !.busy = busy]

SpecFixed == InitFixed /\ [][NextAlg]_vars

-----------------------------------------------------------------------------
(* The task-list specification: the store holds tasks of two users and two *)
(* dates, done or not, and generate_plan runs for user 1 on either date.   *)

OwnerIds == {1, 2}

TaskRowKinds ==
    [user_id : OwnerIds, date : Dates, start_time : {None, <<9, 0>>}, done : BOOLEAN]

InitPending ==
    \E kinds \in SeqsUpTo(TaskRowKinds, MaxTasks),
       busy \in SeqsUpTo({<< <<9, 0>>, <<9, 30>> >>}, MaxBusy) :
        /\ users = OwnerIds
        /\ tasks = {[id |-> i, user_id |-> kinds[i].user_id, date |-> kinds[i].date,
                     start_time |-> kinds[i].start_time, estimated_minutes |-> None,
                     done |-> kinds[i].done] : i \in DOMAIN kinds}
        /\ availability = {}
        /\ busy_blocks = [i \in DOMAIN busy |->
                            [user_id |-> 1, date |-> 1,
                             start_time |-> busy[i][1], end_time |-> busy[i][2]]]
        /\ plans = {}
        /\ plan_items = {}
        /\ ret = NoOutcome
        /\ sess = [w \in Workers |-> IdleSession]
        /\ recurring_tasks = {}
        /\ bp = IdleBuild

NextPending ==
    \E d \in Dates : may_generate(1, d) /\ generate_plan(1, d)

SpecPending == InitPending /\ [][NextPending]_vars

-----------------------------------------------------------------------------
(* The task-edit specification: the store holds tasks of two users, and    *)
(* either user calls set_task_done, delete_task, move_task and edit_task   *)
(* with the id of a task of their own, of the other user, or of no task.   *)

InitTasks ==
    \E kinds \in SeqsUpTo(TaskRowKinds, MaxStoreTasks) :
        /\ users = OwnerIds
        /\ tasks = {[id |-> i, user_id |-> kinds[i].user_id, date |-> kinds[i].date,
                     start_time |-> kinds[i].start_time, estimated_minutes |-> None,
                     done |-> kinds[i].done] : i \in DOMAIN kinds}
        /\ availability = {}
        /\ busy_blocks = <<>>
        /\ plans = {}
        /\ plan_items = {}
        /\ ret = NoOutcome
        /\ sess = [w \in Workers |-> IdleSession]
        /\ recurring_tasks = {}
        /\ bp = IdleBuild

\* The ids the commands are given: those of the stored tasks and one more.
TaskIdChoices == 1..(MaxStoreTasks + 1)

EditedStartTimes == {None, <<9, 30>>}
EditedMinutes == {None, <<20>>}

NextTasks ==
    \E tg \in OwnerIds, task_id \in TaskIdChoices :
        \/ \E done \in BOOLEAN : set_task_done(tg, task_id, done)
        \/ delete_task(tg, task_id)
        \/ \E d \in Dates : move_task(tg, task_id, d)
        \/ \E s \in EditedStartTimes, m \in EditedMinutes : edit_task(tg, task_id, s, m)

SpecTasks == InitTasks /\ [][NextTasks]_vars

-----------------------------------------------------------------------------
(* The repeats specification: add_repeat and ensure_repeats_generated made *)
(* one after another on a store that starts empty.                         *)

RepeatKinds ==
    {[kind |-> "daily", weekday |-> None], [kind |-> "weekdays", weekday |-> None],
     [kind |-> "weekly", weekday |-> <<4>>], [kind |-> "weekly", weekday |-> <<5>>]}

NextRepeats ==
    \/ \E tg \in OwnerIds, k \in RepeatKinds, time_str \in AddedStartTimes :
          /\ Cardinality(recurring_tasks) < MaxRepeats
          /\ add_repeat(tg, k.kind, k.weekday, time_str)
    \/ \E tg \in OwnerIds, d \in Dates : ensure_repeats_generated(tg, d)

SpecRepeats == Init /\ [][NextRepeats]_vars

-----------------------------------------------------------------------------
(* What the properties below speak of. *)

\* The minutes of the half-open interval [s, e).
MinutesOf(s, e) == {m \in s..(e - 1) : TRUE}

Intersect(s1, e1, s2, e2) == MinutesOf(s1, e1) \cap MinutesOf(s2, e2) # {}

\* A stored plan item's interval, read back from its "HH:MM" strings.
ItemStart(it) == hhmm_to_minutes(it.start_time)
ItemEnd(it) == hhmm_to_minutes(it.end_time)

\* A build_plan item's interval.
OutStart(it) == hhmm_to_minutes(it.start_hhmm)
OutEnd(it) == hhmm_to_minutes(it.end_hhmm)

\* The window and the busy intervals stored for user 1 and date 1, which do
\* not change in the scheduling specification.
StoredWindow ==
    LET rows == {a \in availability : a.user_id = 1 /\ a.date = 1}
    IN IF rows = {}
       THEN <<DefaultAvailStartHour * 60, DefaultAvailEndHour * 60>>
       ELSE LET a == CHOOSE r \in rows : TRUE
            IN <<a.start_time[1] * 60 + a.start_time[2],
                 a.end_time[1] * 60 + a.end_time[2]>>

StoredBusy ==
    {<<busy_blocks[i].start_time[1] * 60 + busy_blocks[i].start_time[2],
       busy_blocks[i].end_time[1] * 60 + busy_blocks[i].end_time[2]>> :
        i \in DOMAIN busy_blocks}

\* [s, e) lies in the stored window and meets no stored busy interval.
SlotIsFree(s, e) ==
    /\ StoredWindow[1] <= s
    /\ e <= StoredWindow[2]
    /\ \A b \in StoredBusy : ~Intersect(s, e, b[1], b[2])

\* The duration generate_plan gives a task row: 30 when unset or 0.
Duration(t) ==
    IF t.estimated_minutes = <<>> THEN 30
    ELSE IF t.estimated_minutes[1] = 0 THEN 30 ELSE t.estimated_minutes[1]

RequestsTime(t) == t.start_time # <<>> /\ t.start_time[1] >= 0

RequestedStart(t) == t.start_time[1] * 60 + t.start_time[2]

-----------------------------------------------------------------------------
(* C1: in every plan version written by generate_plan, no two plan items   *)
(* have intersecting [start, end) intervals.                               *)
C1_NonOverlap ==
    \A p \in plans : \A i, j \in {it \in plan_items : it.plan_id = p.id} :
        i # j => ~Intersect(ItemStart(i), ItemEnd(i), ItemStart(j), ItemEnd(j))

-----------------------------------------------------------------------------
(* C4: every plan item of either generation path lies inside the           *)
(* availability window used and intersects no busy interval used.          *)
C4_Containment ==
    /\ \A it \in plan_items : SlotIsFree(ItemStart(it), ItemEnd(it))
    /\ \A i \in DOMAIN bp.plan :
          /\ hhmm_to_minutes(bp.avail[1]) <= OutStart(bp.plan[i])
          /\ OutEnd(bp.plan[i]) <= hhmm_to_minutes(bp.avail[2])
          /\ \A k \in DOMAIN bp.busy :
                ~Intersect(OutStart(bp.plan[i]), OutEnd(bp.plan[i]),
                           hhmm_to_minutes(bp.busy[k][1]),
                           hhmm_to_minutes(bp.busy[k][2]))

\* Both paths have placed a task right at the end of a busy interval.
C4_Witness ==
    /\ bp.pc = "done"
    /\ \E i \in DOMAIN bp.plan : \E k \in DOMAIN bp.busy :
          OutStart(bp.plan[i]) = hhmm_to_minutes(bp.busy[k][2])
    /\ \E it \in plan_items : \E b \in StoredBusy : ItemStart(it) = b[2]

-----------------------------------------------------------------------------
(* C5, as stated: a pending task with a fixed start time whose requested   *)
(* interval is not free has no plan item in the generated version.         *)
C5_ConflictingFixedUnscheduled ==
    \A p \in plans : \A t \in tasks :
        (RequestsTime(t)
         /\ ~SlotIsFree(RequestedStart(t), RequestedStart(t) + Duration(t)))
        => ~ \E it \in plan_items : it.plan_id = p.id /\ it.task_id = t.id

(* C5, amended: such a task is never placed at its requested time; it has  *)
(* at most one plan item in the version, and that item is at another time, *)
(* inside the window and clear of every busy interval.                     *)
C5_ConflictingFixedProbed ==
    \A p \in plans : \A t \in tasks :
        (RequestsTime(t)
         /\ ~SlotIsFree(RequestedStart(t), RequestedStart(t) + Duration(t)))
        => LET mine == {it \in plan_items : it.plan_id = p.id /\ it.task_id = t.id}
           IN /\ Cardinality(mine) <= 1
              /\ \A it \in mine :
                    /\ ItemStart(it) # RequestedStart(t)
                    /\ ItemEnd(it) = ItemStart(it) + Duration(t)
                    /\ SlotIsFree(ItemStart(it), ItemEnd(it))

\* A task whose requested interval meets a busy block has an item elsewhere.
C5_Witness ==
    \E p \in plans : \E t \in tasks :
        /\ RequestsTime(t)
        /\ \E b \in StoredBusy :
              Intersect(RequestedStart(t), RequestedStart(t) + Duration(t), b[1], b[2])
        /\ \E it \in plan_items : it.plan_id = p.id /\ it.task_id = t.id

-----------------------------------------------------------------------------
(* C6: when build_plan returns, every input task id occurs either in       *)
(* exactly one plan item or exactly once in the not-scheduled list, never  *)
(* in both, so the two lengths add up to the number of input tasks.        *)
C6_Partition ==
    bp.pc = "done" =>
        /\ Len(bp.plan) + Len(bp.not_scheduled) = Len(bp.tasks)
        /\ \A k \in DOMAIN bp.tasks :
              Cardinality({i \in DOMAIN bp.plan : bp.plan[i].task_id = bp.tasks[k].id})
              + Cardinality({i \in DOMAIN bp.not_scheduled :
                               bp.not_scheduled[i] = bp.tasks[k].id}) = 1

\* A run that placed one task and could not place another.
C6_Witness ==
    bp.pc = "done" /\ bp.plan # <<>> /\ bp.not_scheduled # <<>>

-----------------------------------------------------------------------------
(* C7: no two plan items of a build_plan run have intersecting             *)
(* [start, end) intervals, whatever mix of fixed and unfixed tasks.        *)
C7_BuildPlanNonOverlap ==
    \A i, j \in DOMAIN bp.plan :
        i # j => ~Intersect(OutStart(bp.plan[i]), OutEnd(bp.plan[i]),
                            OutStart(bp.plan[j]), OutEnd(bp.plan[j]))

\* A finished run that placed a fixed and an unfixed task.
C7_Witness ==
    /\ bp.pc = "done"
    /\ \E i, j \in DOMAIN bp.plan :
          /\ \E k \in DOMAIN bp.fixed : bp.fixed[k].id = bp.plan[i].task_id
          /\ \E k \in DOMAIN bp.nonfixed : bp.nonfixed[k].id = bp.plan[j].task_id

-----------------------------------------------------------------------------
(* C2: once lock_plan has returned True for a (user, date), every later    *)
(* generate_plan call for it fails with PLAN_LOCKED and leaves the plan    *)
(* rows (versions, lock flags) and all plan items as they were.  Stated    *)
(* step by step: a lock_plan step that returns True leaves the date with a *)
(* locked row, a date with a locked row keeps one, and a generate_plan     *)
(* step on such a date raises and writes nothing.                          *)
HasLockedRow(P, tg, d) ==
    \E p \in P : p.user_id = tg /\ p.date = d /\ p.is_locked

C2_LockEnforced ==
    [][\A tg \in TgIds, d \in Dates :
          /\ (ret'.op = "lock_plan" /\ ret'.tg = tg /\ ret'.date = d
              /\ ret'.result = "True") => HasLockedRow(plans', tg, d)
          /\ HasLockedRow(plans, tg, d) => HasLockedRow(plans', tg, d)
          /\ (HasLockedRow(plans, tg, d)
              /\ ret'.op = "generate_plan" /\ ret'.tg = tg /\ ret'.date = d)
             => /\ ret'.result = "PLAN_LOCKED"
                /\ plans' = plans
                /\ plan_items' = plan_items]_vars

\* A generate_plan call has just failed on a locked date that has items.
C2_Witness ==
    /\ ret.op = "generate_plan"
    /\ ret.result = "PLAN_LOCKED"
    /\ \E p \in plans :
          /\ p.user_id = ret.tg /\ p.date = ret.date /\ p.is_locked
          /\ \E it \in plan_items : it.plan_id = p.id

-----------------------------------------------------------------------------
(* C3: in any sequence of generate_plan and lock_plan calls on a (user,    *)
(* date), the first successful generate_plan creates version 1 and every   *)
(* later one creates exactly one row, one version above the latest.        *)
VersionsOn(P, tg, d) == {p.version : p \in {q \in P : q.user_id = tg /\ q.date = d}}

C3_VersionsIncrease ==
    [][\A tg \in TgIds, d \in Dates :
          (ret'.op = "generate_plan" /\ ret'.tg = tg /\ ret'.date = d
           /\ ret'.result = "ok")
          => LET old == VersionsOn(plans, tg, d)
                 new == VersionsOn(plans', tg, d)
             IN /\ Cardinality(plans') = Cardinality(plans) + 1
                /\ plans \subseteq plans'
                /\ \E v \in new \ old :
                      /\ new = old \cup {v}
                      /\ \A w \in old : w < v
                      /\ v = Cardinality(old) + 1]_vars

\* Two generations have succeeded on one date while the other date has a plan.
C3_Witness ==
    /\ ret.op = "generate_plan" /\ ret.result = "ok"
    /\ VersionsOn(plans, ret.tg, ret.date) = {1, 2}
    /\ \E p \in plans : p.date # ret.date

-----------------------------------------------------------------------------
(* C8: under any interleaving of the statements of lock_plan and           *)
(* generate_plan on one (user, date), once a lock_plan has committed no    *)
(* new version of the date is created and its latest version is locked in  *)
(* every later state.                                                      *)
LatestIsLocked(P, tg, d) ==
    \E p \in P :
        /\ p.user_id = tg /\ p.date = d /\ p.is_locked
        /\ \A q \in P : (q.user_id = tg /\ q.date = d) => q.version <= p.version

C8_LockAbsorbing ==
    [][HasLockedRow(plans, 1, 1)
       => /\ LatestIsLocked(plans, 1, 1)
          /\ LatestIsLocked(plans', 1, 1)
          /\ VersionsOn(plans', 1, 1) = VersionsOn(plans, 1, 1)]_vars

-----------------------------------------------------------------------------
(* C9: generate_plan calls that run concurrently on an unlocked (user,     *)
(* date) end as if run one after the other: each succeeds, the versions    *)
(* are consecutive, and each version holds the items computed for it.      *)
C9_Serializable ==
    ~HasLockedRow(plans, 1, 1)
    => /\ \A w \in Workers :
             (sess[w].op = "generate_plan" /\ sess[w].pc = "done")
             => /\ sess[w].result = "ok"
                /\ {it \in plan_items : it.plan_id = sess[w].plan_id}
                   = Range(compute_items(sess[w].plan_id, pending_tasks(tasks, 1, 1),
                                         avail_of(availability_rows(availability, 1, 1)),
                                         busy_of(busy_blocks, 1, 1)))
       /\ VersionsOn(plans, 1, 1) = 1..Cardinality(plans)

-----------------------------------------------------------------------------
(* C10: in every committed store state a plan row exists together with the *)
(* items computed for it, and every item has its plan row.                 *)
C10_ItemsWithVersionRow ==
    /\ \A p \in plans :
          {it \in plan_items : it.plan_id = p.id}
          = Range(compute_items(p.id, pending_tasks(tasks, p.user_id, p.date),
                                avail_of(availability_rows(availability, p.user_id, p.date)),
                                busy_of(busy_blocks, p.user_id, p.date)))
    /\ \A it \in plan_items : \E p \in plans : p.id = it.plan_id

-----------------------------------------------------------------------------
(* What a finished build_plan run placed before a task without a fixed     *)
(* start: every item of a fixed task and the items of the unfixed tasks    *)
(* that come before it in the input.                                       *)
PlacedBefore(k) ==
    {bp.plan[i] : i \in {j \in DOMAIN bp.plan :
        \/ \E f \in DOMAIN bp.fixed : bp.fixed[f].id = bp.plan[j].task_id
        \/ \E n \in 1..(k - 1) : bp.nonfixed[n].id = bp.plan[j].task_id}}

\* The half-open intervals [s1, e1) and [s2, e2) share a minute.
Overlap(s1, e1, s2, e2) == s1 < e1 /\ s2 < e2 /\ s1 < e2 /\ s2 < e1

\* [s, e) lies in the window, meets no busy interval and no item of prev.
FreeFor(s, e, prev) ==
    /\ hhmm_to_minutes(bp.avail[1]) <= s
    /\ e <= hhmm_to_minutes(bp.avail[2])
    /\ \A b \in DOMAIN bp.busy :
          ~Overlap(s, e, hhmm_to_minutes(bp.busy[b][1]), hhmm_to_minutes(bp.busy[b][2]))
    /\ \A it \in prev : ~Overlap(s, e, OutStart(it), OutEnd(it))

\* [s, s + d) is free and lies in a free stretch of at least 10 minutes.
FreeInKeptWindow(s, d, prev) ==
    /\ FreeFor(s, s + d, prev)
    /\ \E u \in (s - MinWindow)..s :
          FreeFor(u, IF s + d > u + MinWindow THEN s + d ELSE u + MinWindow, prev)

ItemsOfTask(id) == {i \in DOMAIN bp.plan : bp.plan[i].task_id = id}

(* C11, as stated: every task without a fixed start gets the smallest      *)
(* start s for which [s, s + duration) is inside the window, clear of the  *)
(* busy intervals and of the items placed before it, and is left out only  *)
(* when there is no such s.                                                *)
C11_EarliestFeasible ==
    bp.pc = "done" =>
        \A k \in DOMAIN bp.nonfixed :
            LET t == bp.nonfixed[k]
                prev == PlacedBefore(k)
                a0 == hhmm_to_minutes(bp.avail[1])
                a1 == hhmm_to_minutes(bp.avail[2])
            IN /\ \A i \in ItemsOfTask(t.id) :
                     /\ FreeFor(OutStart(bp.plan[i]), OutStart(bp.plan[i]) + t.duration_min, prev)
                     /\ \A s \in a0..(OutStart(bp.plan[i]) - 1) :
                           ~FreeFor(s, s + t.duration_min, prev)
               /\ ItemsOfTask(t.id) = {}
                  => \A s \in a0..(a1 - t.duration_min) : ~FreeFor(s, s + t.duration_min, prev)

(* C11, amended: the smallest such s inside a free stretch of at least 10  *)
(* minutes (shorter gaps are dropped from the window list).  For a task of *)
(* 10 minutes or more every feasible s lies in such a stretch, so this is  *)
(* the smallest feasible s.                                                *)
C11_EarliestInKeptWindow ==
    bp.pc = "done" =>
        \A k \in DOMAIN bp.nonfixed :
            LET t == bp.nonfixed[k]
                prev == PlacedBefore(k)
                a0 == hhmm_to_minutes(bp.avail[1])
                a1 == hhmm_to_minutes(bp.avail[2])
            IN /\ Cardinality(ItemsOfTask(t.id)) <= 1
               /\ \A i \in ItemsOfTask(t.id) :
                     /\ OutEnd(bp.plan[i]) = OutStart(bp.plan[i]) + t.duration_min
                     /\ FreeInKeptWindow(OutStart(bp.plan[i]), t.duration_min, prev)
                     /\ \A s \in a0..(OutStart(bp.plan[i]) - 1) :
                           ~FreeInKeptWindow(s, t.duration_min, prev)
               /\ ItemsOfTask(t.id) = {}
                  => \A s \in a0..(a1 - t.duration_min) :
                        ~FreeInKeptWindow(s, t.duration_min, prev)

\* A finished run put a short task after a free gap that would have held it
\* but was too short to be kept in the window list.
C11_Witness ==
    /\ bp.pc = "done"
    /\ \E k \in DOMAIN bp.nonfixed : \E i \in ItemsOfTask(bp.nonfixed[k].id) :
          /\ bp.nonfixed[k].duration_min < 10
          /\ \E s \in hhmm_to_minutes(bp.avail[1])..(OutStart(bp.plan[i]) - 1) :
                FreeFor(s, s + bp.nonfixed[k].duration_min, PlacedBefore(k))

-----------------------------------------------------------------------------
(* C12: when build_plan returns, every task with a fixed start time has    *)
(* either one plan item that starts exactly at the requested time and ends *)
(* duration minutes later, or its id in the not-scheduled list; it has no  *)
(* item at any other time.                                                 *)
C12_FixedExactOrUnscheduled ==
    bp.pc = "done" =>
        \A k \in DOMAIN bp.tasks :
            LET t == bp.tasks[k]
                mine == {i \in DOMAIN bp.plan : bp.plan[i].task_id = t.id}
                listed == \E n \in DOMAIN bp.not_scheduled : bp.not_scheduled[n] = t.id
            IN t.fixed_start_hhmm # <<>>
               => /\ \A i \in mine :
                        /\ bp.plan[i].start_hhmm = t.fixed_start_hhmm
                        /\ hhmm_to_minutes(bp.plan[i].end_hhmm)
                           = hhmm_to_minutes(t.fixed_start_hhmm) + t.duration_min
                  /\ \/ Cardinality(mine) = 1 /\ ~listed
                     \/ mine = {} /\ listed

\* A finished run placed one fixed task inside a window, away from its
\* start, and left another fixed task unscheduled.
C12_Witness ==
    /\ bp.pc = "done"
    /\ \E i \in DOMAIN bp.plan : \E k \in DOMAIN bp.tasks :
          /\ bp.tasks[k].id = bp.plan[i].task_id
          /\ bp.tasks[k].fixed_start_hhmm # <<>>
          /\ hhmm_to_minutes(bp.plan[i].start_hhmm) > hhmm_to_minutes(bp.avail[1])
          /\ \A b \in DOMAIN bp.busy :
                hhmm_to_minutes(bp.busy[b][2]) # hhmm_to_minutes(bp.plan[i].start_hhmm)
    /\ \E n \in DOMAIN bp.not_scheduled : \E k \in DOMAIN bp.tasks :
          /\ bp.tasks[k].id = bp.not_scheduled[n]
          /\ bp.tasks[k].fixed_start_hhmm # <<>>

-----------------------------------------------------------------------------
(* C13: a successful generate_plan run persists an item for every task it  *)
(* placed and reports each pending task that received no plan item, by id, *)
(* in an unscheduled-tasks result of the run.                              *)
C13_UnplacedReported ==
    (ret.op = "generate_plan" /\ ret.result = "ok")
    => \A t \in tasks :
          (/\ t.user_id = ret.tg /\ t.date = ret.date /\ ~t.done
           /\ ~ \E it \in plan_items : it.plan_id = ret.id /\ it.task_id = t.id)
          => \E n \in DOMAIN unscheduled_result(ret) : unscheduled_result(ret)[n] = t.id

-----------------------------------------------------------------------------
(* C14: both generation paths reject invalid input before windowing: a     *)
(* task whose duration is zero or less never yields a plan item, and a     *)
(* busy interval whose start is not before its end is not used (a plan     *)
(* written with such a block stored holds the items computed without it,   *)
(* or none).                                                               *)
ValidBusy ==
    SelectSeq(busy_of(busy_blocks, 1, 1),
              LAMBDA b : hhmm_to_minutes(b[1]) < hhmm_to_minutes(b[2]))

C14_InvalidInputRejected ==
    /\ \A t \in tasks :
          (t.estimated_minutes # <<>> /\ t.estimated_minutes[1] <= 0)
          => ~ \E it \in plan_items : it.task_id = t.id
    /\ \A k \in DOMAIN bp.tasks :
          bp.tasks[k].duration_min <= 0
          => ~ \E i \in DOMAIN bp.plan : bp.plan[i].task_id = bp.tasks[k].id
    /\ \A p \in plans :
          LET mine == {it \in plan_items : it.plan_id = p.id}
          IN \/ mine = {}
             \/ mine = Range(compute_items(p.id, pending_tasks(tasks, 1, 1),
                                           avail_of(availability_rows(availability, 1, 1)),
                                           ValidBusy))

-----------------------------------------------------------------------------
(* C15: in every plan version written by generate_plan each task id is     *)
(* referenced by at most one plan item, and every referenced task is a     *)
(* pending (not done) task of the plan's user and date in the task list    *)
(* the run read (the tasks do not change in the task-list specification).  *)
C15_OneItemPerPendingTask ==
    \A p \in plans :
        LET mine == {it \in plan_items : it.plan_id = p.id}
        IN /\ \A i, j \in mine : i.task_id = j.task_id => i = j
           /\ \A it \in mine :
                 \E t \in tasks : /\ t.id = it.task_id
                                  /\ t.user_id = p.user_id
                                  /\ t.date = p.date
                                  /\ ~t.done

\* A version holds an item of a task that lost its fixed time to a busy
\* block, while the store holds a task the version must not reference.
C15_Witness ==
    \E p \in plans :
        /\ \E it \in plan_items : \E t \in tasks :
              /\ it.plan_id = p.id /\ it.task_id = t.id
              /\ t.start_time # <<>>
              /\ it.start_time # t.start_time
        /\ \E t \in tasks : t.done \/ t.user_id # p.user_id \/ t.date # p.date

-----------------------------------------------------------------------------
(* C16: get_plan_items is a pure read: a call leaves every table as it     *)
(* was, for any user and date, with or without a plan.                     *)
C16_ShowIsPureRead ==
    [][ret'.op = "get_plan_items"
       => UNCHANGED <<users, tasks, availability, busy_blocks, plans, plan_items>>]_vars

-----------------------------------------------------------------------------
(* C17: after any sequence of generate_plan and lock_plan calls,           *)
(* get_plan_items returns the highest version of the date, the lock flag   *)
(* of that version and exactly the items of that version; with no plan it  *)
(* returns (None, None, False, []).                                        *)
C17_ShowsLatestVersion ==
    ret.op = "get_plan_items" =>
        LET rows == {p \in plans : p.user_id = ret.tg /\ p.date = ret.date}
        IN IF rows = {}
           THEN ret.value = [plan_id |-> <<>>, version |-> <<>>,
                             locked |-> FALSE, items |-> <<>>]
           ELSE \E p \in rows :
                   /\ \A q \in rows : q.version <= p.version
                   /\ ret.value.plan_id = <<p.id>>
                   /\ ret.value.version = <<p.version>>
                   /\ ret.value.locked = p.is_locked
                   /\ {ret.value.items[i] : i \in DOMAIN ret.value.items}
                      = {[task_id |-> it.task_id, start_time |-> it.start_time,
                          end_time |-> it.end_time] :
                            it \in {x \in plan_items : x.plan_id = p.id}}
                   /\ Len(ret.value.items)
                      = Cardinality({x \in plan_items : x.plan_id = p.id})

\* The call has returned a locked version 2 and its item while version 1
\* has an item too.
C17_Witness ==
    /\ ret.op = "get_plan_items"
    /\ ret.value.version = <<2>>
    /\ ret.value.locked
    /\ ret.value.items # <<>>
    /\ \E p \in plans : \E it \in plan_items :
          p.user_id = ret.tg /\ p.date = ret.date /\ p.version = 1 /\ it.plan_id = p.id

-----------------------------------------------------------------------------
(* C18: lock_plan on a (user, date) without a plan returns False and       *)
(* leaves the plans, the plan items, the tasks, the availability and the   *)
(* busy blocks as they were, so the date still has no plan and a           *)
(* generate_plan on it succeeds with version 1; on a date with a plan it   *)
(* returns True and sets the lock flag of the latest version and nothing   *)
(* else.                                                                   *)
C18_LockPlan ==
    [][\A tg \in TgIds, d \in Dates :
          LET rows == {p \in plans : p.user_id = tg /\ p.date = d}
          IN /\ (ret'.op = "lock_plan" /\ ret'.tg = tg /\ ret'.date = d /\ rows = {})
                => /\ ret'.result = "False"
                   /\ UNCHANGED <<tasks, availability, busy_blocks, plans, plan_items,
                                  recurring_tasks>>
             /\ (ret'.op = "lock_plan" /\ ret'.tg = tg /\ ret'.date = d /\ rows # {})
                => /\ ret'.result = "True"
                   /\ UNCHANGED <<tasks, availability, busy_blocks, plan_items,
                                  recurring_tasks>>
                   /\ \E p \in rows :
                         /\ \A q \in rows : q.version <= p.version
                         /\ plans' = (plans \ {p}) \cup {[p EXCEPT !.is_locked = TRUE]}
             /\ (ret'.op = "generate_plan" /\ ret'.tg = tg /\ ret'.date = d /\ rows = {})
                => /\ ret'.result = "ok"
                   /\ {p.version : p \in {q \in plans' : q.user_id = tg /\ q.date = d}} = {1}]_vars

\* lock_plan has just returned False for a date without a plan, while on
\* the other date an earlier call locked version 2 and left version 1 open.
C18_Witness ==
    /\ ret.op = "lock_plan" /\ ret.result = "False"
    /\ ~ \E p \in plans : p.user_id = ret.tg /\ p.date = ret.date
    /\ \E p, q \in plans :
          /\ p.user_id = ret.tg /\ q.user_id = ret.tg /\ p.date = q.date
          /\ p.version = 1 /\ ~p.is_locked
          /\ q.version = 2 /\ q.is_locked

-----------------------------------------------------------------------------
(* C19: a plan version is an immutable snapshot: no call inserts, deletes  *)
(* or modifies a plan item of a version that exists, or changes the        *)
(* version number, user or date of its row; a generate_plan only adds a    *)
(* row and the items of that row.                                          *)
C19_VersionsImmutable ==
    [][\A p \in plans :
          /\ {it \in plan_items' : it.plan_id = p.id}
             = {it \in plan_items : it.plan_id = p.id}
          /\ \E q \in plans' : /\ q.id = p.id /\ q.version = p.version
                               /\ q.user_id = p.user_id /\ q.date = p.date
          /\ Cardinality({q \in plans' : q.id = p.id}) = 1]_vars

\* Version 2 of a date was generated empty while version 1 keeps its item.
C19_Witness ==
    \E p, q \in plans :
        /\ p.user_id = q.user_id /\ p.date = q.date
        /\ p.version = 1 /\ q.version = 2
        /\ \E it \in plan_items : it.plan_id = p.id
        /\ ~ \E it \in plan_items : it.plan_id = q.id

-----------------------------------------------------------------------------
(* C20: every version written by generate_plan is consistent with one      *)
(* snapshot taken when the run started: the task list, the availability    *)
(* window and the busy list it used are those the store held at the run's  *)
(* first read, whatever other commands committed between its statements.   *)
C20_SingleSnapshot ==
    \A w \in Workers :
        (/\ sess[w].op = "generate_plan"
         /\ \/ sess[w].pc = "commit_items"
            \/ sess[w].pc = "done" /\ sess[w].result = "ok")
        => /\ sess[w].tasks = pending_tasks(sess[w].start[1], sess[w].tg, sess[w].date)
           /\ sess[w].avail
              = avail_of(availability_rows(sess[w].start[2], sess[w].tg, sess[w].date))
           /\ sess[w].busy = busy_of(sess[w].start[3], sess[w].tg, sess[w].date)

\* C21: whatever set_availability calls ran for a (user, date), interleaved
\* or not, the store holds at most one availability row for it and
\* get_availability_and_busy returns without raising.
C21_OneWindowPerDate ==
    /\ \A tg \in TgIds, d \in Dates :
          Cardinality(availability_rows(availability, tg, d)) <= 1
    /\ ret.op = "get_availability_and_busy" => ret.result = "ok"

\* The ranges of L are in order, each starting after the one before it ends.
ApartInOrder(L) == \A i \in 1..(Len(L) - 1) : L[i][2] < L[i + 1][1]

\* Minute m lies in one of the ranges of L.
Covers(L, m) == \E i \in DOMAIN L : L[i][1] <= m /\ m < L[i][2]

Merged == bp.pc \in {"subtract", "returned"}

\* C22: merge_ranges applied to its own result returns it unchanged, and a
\* list that is already sorted with disjoint, non-touching ranges is
\* returned unchanged.
C22_MergeIdempotent ==
    Merged =>
        /\ merge_ranges(bp.merged) = bp.merged
        /\ ApartInOrder(bp.ranges) => bp.merged = bp.ranges

C22_Witness ==
    /\ Merged
    /\ Len(bp.ranges) = 3
    /\ Len(bp.merged) = 2
    /\ merge_ranges(bp.merged) = bp.merged

\* The minutes from the least to the greatest end point of the ranges of A
\* and B.
SpanOf(A, B) ==
    LET pts == {A[i][1] : i \in DOMAIN A} \cup {A[i][2] : i \in DOMAIN A}
               \cup {B[i][1] : i \in DOMAIN B} \cup {B[i][2] : i \in DOMAIN B}
    IN IF pts = {} THEN {}
       ELSE (CHOOSE x \in pts : \A y \in pts : x <= y)
            ..(CHOOSE x \in pts : \A y \in pts : y <= x)

FreeWindowsReturned == bp.pc = "returned"

\* Minute m is inside the availability window and in no busy interval.
FreeMinute(m) ==
    /\ hhmm_to_minutes(bp.avail[1]) <= m
    /\ m < hhmm_to_minutes(bp.avail[2])
    /\ ~Covers(bp.ranges, m)

\* The end of the run of free minutes that starts at s.
RunEnd(s) ==
    CHOOSE e \in (s + 1)..hhmm_to_minutes(bp.avail[2]) :
        ~FreeMinute(e) /\ \A m \in s..(e - 1) : FreeMinute(m)

\* The maximal ranges of free minutes.
MaximalFree ==
    {<<s, RunEnd(s)>> :
        s \in {m \in hhmm_to_minutes(bp.avail[1])..(hhmm_to_minutes(bp.avail[2]) - 1) :
                 FreeMinute(m) /\ ~FreeMinute(m - 1)}}

\* C26: for a window a0 < a1 and busy intervals with start < end, free_windows
\* returns exactly the maximal ranges of [a0, a1) that no busy interval
\* covers and that are at least 10 minutes long, sorted by start and
\* pairwise disjoint.
C26_FreeWindowsExact ==
    FreeWindowsReturned =>
        /\ Range(bp.windows) = {w \in MaximalFree : w[2] - w[1] >= 10}
        /\ \A i \in 1..(Len(bp.windows) - 1) : bp.windows[i][2] <= bp.windows[i + 1][1]
        /\ \A i \in DOMAIN bp.windows :
              \A m \in bp.windows[i][1]..(bp.windows[i][2] - 1) : ~Covers(bp.ranges, m)

C26_Witness ==
    /\ FreeWindowsReturned
    /\ Len(bp.merged) < Len(bp.ranges)
    /\ Len(bp.windows) = 1
    /\ \E w \in MaximalFree : w[2] - w[1] < 10

\* C27: for ranges with start < end, merge_ranges returns a list sorted by
\* start, each range starting strictly after the one before it ends, that
\* covers exactly the minutes the input ranges cover.
C27_MergeCanonical ==
    Merged =>
        /\ ApartInOrder(bp.merged)
        /\ \A i \in DOMAIN bp.merged : bp.merged[i][1] < bp.merged[i][2]
        /\ \A m \in SpanOf(bp.ranges, bp.merged) :
              Covers(bp.ranges, m) <=> Covers(bp.merged, m)

C27_Witness ==
    /\ Merged
    /\ Len(bp.ranges) = 3
    /\ ~ApartInOrder(bp.ranges)
    /\ \E i \in 1..2 : bp.ranges[i][2] = bp.ranges[i + 1][1]
    /\ Len(bp.merged) = 1

\* C23: with no availability row for the (user, date), generate_plan stores
\* exactly the items it computes from the same tasks and busy intervals when
\* the window 09:00-21:00 is the one read.
C23_DefaultWindow ==
    (ret.op = "generate_plan" /\ ret.result = "ok"
        /\ availability_rows(availability, ret.tg, ret.date) = {}) =>
        items_of(plan_items, ret.id) =
            Range(compute_items(ret.id, pending_tasks(tasks, ret.tg, ret.date),
                                << <<9, 0>>, <<21, 0>> >>,
                                busy_of(busy_blocks, ret.tg, ret.date)))

C23_Witness ==
    /\ ret.op = "generate_plan" /\ ret.result = "ok"
    /\ availability_rows(availability, ret.tg, ret.date) = {}
    /\ busy_blocks # <<>>
    /\ \E it \in items_of(plan_items, ret.id) : ItemEnd(it) > 10 * 60

\* C24: the list build_plan returns and the item list get_plan_items
\* returns both have non-decreasing start times in minutes.
C24_ReturnedSorted ==
    /\ bp.pc = "done" =>
          \A i \in DOMAIN bp.plan, j \in DOMAIN bp.plan :
              i < j => OutStart(bp.plan[i]) <= OutStart(bp.plan[j])
    /\ ret.op = "get_plan_items" =>
          \A i \in DOMAIN ret.value.items, j \in DOMAIN ret.value.items :
              i < j => ItemStart(ret.value.items[i]) <= ItemStart(ret.value.items[j])

C24_Witness ==
    /\ bp.pc = "done"
    /\ Len(bp.plan) = 2
    /\ bp.plan[1].task_id = 2
    /\ OutStart(bp.plan[1]) < OutStart(bp.plan[2])
    /\ ret.op = "get_plan_items"
    /\ Len(ret.value.items) = 2
    /\ ItemStart(ret.value.items[1]) < ItemStart(ret.value.items[2])

\* Template r is due on the date: daily, weekdays on Monday to Friday,
\* weekly on its own weekday.
DueOn(r, date_obj) ==
    \/ r.kind = "daily"
    \/ r.kind = "weekdays" /\ weekday_of(date_obj) \in 0..4
    \/ r.kind = "weekly" /\ r.weekday = <<weekday_of(date_obj)>>

\* The tasks of the date that carry the id of template r.
TasksFrom(r, date_obj) ==
    {t \in tasks : /\ "source_repeat_id" \in DOMAIN t
                   /\ t.user_id = r.user_id
                   /\ t.date = date_obj
                   /\ t.source_repeat_id = <<r.id>>}

\* C25: when ensure_repeats_generated(user, date) has returned, every active
\* template of the user that is due on the date has exactly one task of
\* that date carrying its id.
C25_OneTaskPerTemplate ==
    ret.op = "ensure_repeats_generated" =>
        \A r \in recurring_tasks :
            (r.user_id = ret.tg /\ r.is_active /\ DueOn(r, ret.date)) =>
                Cardinality(TasksFrom(r, ret.date)) = 1

\* The part of C25 that holds: never two tasks of one date from one template.
C25_NeverTwo ==
    \A r \in recurring_tasks, d \in Dates : Cardinality(TasksFrom(r, d)) <= 1

\* free_windows has returned in the build_plan run.
WindowsBuilt == bp.pc \in {"fixed", "nonfixed", "sort", "done"}

\* C28: in a build_plan run, once free_windows has returned and after every
\* placement, the window list is sorted by start, its windows are pairwise
\* disjoint and at least 10 minutes long, each lies inside a window that
\* free_windows returned, and none meets an interval placed so far.
C28_WindowListInvariant ==
    WindowsBuilt =>
        /\ \A i \in 1..(Len(bp.windows) - 1) :
              /\ bp.windows[i][1] < bp.windows[i + 1][1]
              /\ bp.windows[i][2] <= bp.windows[i + 1][1]
        /\ \A i \in DOMAIN bp.windows :
              /\ bp.windows[i][2] - bp.windows[i][1] >= 10
              /\ \E w \in Range(free_windows(bp.avail, bp.busy)) :
                    w[1] <= bp.windows[i][1] /\ bp.windows[i][2] <= w[2]
              /\ \A k \in DOMAIN bp.plan :
                    ~Overlap(bp.windows[i][1], bp.windows[i][2],
                             OutStart(bp.plan[k]), OutEnd(bp.plan[k]))

C28_Witness ==
    /\ bp.pc = "sort"
    /\ Len(bp.plan) = 2
    /\ bp.fixed # <<>> /\ bp.nonfixed # <<>>
    /\ Len(bp.windows) = 2
    /\ Len(free_windows(bp.avail, bp.busy)) = 1

\* The items build_plan's first loop gives the fixed-time tasks of the list
\* fixed when it runs on them alone from the window list windows.
RECURSIVE FixedAlone(_, _)
FixedAlone(windows, fixed) ==
    IF fixed = <<>> THEN {}
    ELSE LET t == Head(fixed)
             placed == place_fixed(windows, hhmm_to_minutes(t.fixed_start_hhmm),
                                   t.duration_min)
         IN (IF placed.got = None THEN {}
             ELSE {[task_id |-> t.id,
                    start_hhmm |-> minutes_to_hhmm(placed.got[1]),
                    end_hhmm |-> minutes_to_hhmm(placed.got[2])]})
            \cup FixedAlone(placed.windows, Tail(fixed))

\* C29: the plan items of the fixed-time tasks that build_plan returns are
\* those of the fixed-time tasks placed alone, in their order, on the same
\* availability and busy intervals; they do not depend on the unfixed tasks.
C29_FixedIndependent ==
    bp.pc = "done" =>
        {it \in Range(bp.plan) :
            \E i \in DOMAIN bp.tasks :
                bp.tasks[i].id = it.task_id /\ bp.tasks[i].fixed_start_hhmm # None}
        = FixedAlone(free_windows(bp.avail, bp.busy),
                     SelectSeq(bp.tasks, LAMBDA t : t.fixed_start_hhmm # None))

C29_Witness ==
    /\ bp.pc = "done"
    /\ Len(bp.tasks) = 2
    /\ bp.tasks[1].fixed_start_hhmm = None
    /\ bp.tasks[2].fixed_start_hhmm # None
    /\ bp.used = {1, 2}
    /\ bp.plan[1].task_id = 2
    /\ OutEnd(bp.plan[1]) = OutStart(bp.plan[2])

\* [s, e) lies in the stored window and meets no stored busy interval.
ProbeFree(s, e) ==
    /\ StoredWindow[1] <= s
    /\ e <= StoredWindow[2]
    /\ \A b \in StoredBusy : ~Overlap(s, e, b[1], b[2])

\* generate_plan puts task row t at the start time it asks for.
TakesOwnTime(t) ==
    RequestsTime(t) /\ ProbeFree(RequestedStart(t), RequestedStart(t) + Duration(t))

\* The probe positions from cursor c at which a task of duration d is free.
FreeProbes(c, d) ==
    {k \in 0..((StoredWindow[2] - c) \div 5) : ProbeFree(c + 5 * k, c + 5 * k + d)}

\* The rows in items that the probe placed, in the order they were added.
ProbePlaced(items) ==
    SelectSeq(items, LAMBDA it : \E t \in tasks : t.id = it.task_id /\ ~TakesOwnTime(t))

\* What C30 says of one turn of the loop, from session s to session n.
ProbeTurn(s, n) ==
    LET t == s.tasks[s.i]
        d == Duration(t)
        K == FreeProbes(s.cursor, d)
    IN /\ n.cursor >= s.cursor
       /\ ~TakesOwnTime(t) =>
             IF K # {}
             THEN LET k == CHOOSE x \in K : \A y \in K : x <= y
                      it == n.items[Len(n.items)]
                  IN /\ Len(n.items) = Len(s.items) + 1
                     /\ it.task_id = t.id
                     /\ ItemStart(it) = s.cursor + 5 * k
                     /\ ItemEnd(it) = ItemStart(it) + d
                     /\ n.cursor = ItemEnd(it)
             ELSE n.items = s.items /\ n.cursor = s.cursor

\* C30: in generate_plan the cursor starts at the availability start and
\* never decreases; a task the probe places starts at cursor + 5k for the
\* least k >= 0 whose slot is inside the window and meets no busy interval,
\* and the cursor then is that item's end; a task no probe position fits
\* leaves the cursor as it was; the probe-placed items do not overlap and
\* start in the order the tasks were processed.
C30_ProbeCursor ==
    [][/\ (sess[1].pc = "commit_items" /\ sess'[1].pc = "loop") =>
             sess'[1].cursor = StoredWindow[1]
       /\ (sess[1].pc = "loop" /\ sess'[1].pc = "loop") =>
             /\ ProbeTurn(sess[1], sess'[1])
             /\ LET placed == ProbePlaced(sess'[1].items)
                IN \A i \in DOMAIN placed, j \in DOMAIN placed :
                      i < j => ItemEnd(placed[i]) <= ItemStart(placed[j])
      ]_vars

C30_Witness ==
    /\ sess[1].pc = "loop"
    /\ sess[1].i = 3
    /\ Len(ProbePlaced(sess[1].items)) = 2
    /\ ItemStart(sess[1].items[2]) > ItemEnd(sess[1].items[1])
    /\ sess[1].cursor = ItemEnd(sess[1].items[2])

-----------------------------------------------------------------------------
\* The items a finished build_plan run gave the fixed-time tasks that come
\* before the k-th fixed-time task.
FixedBefore(k) ==
    {bp.plan[i] : i \in {j \in DOMAIN bp.plan :
        \E f \in 1..(k - 1) : bp.fixed[f].id = bp.plan[j].task_id}}

\* The k-th fixed-time task has an item at the time it asks for.
FixedPlaced(k) ==
    \E i \in ItemsOfTask(bp.fixed[k].id) :
        /\ OutStart(bp.plan[i]) = hhmm_to_minutes(bp.fixed[k].fixed_start_hhmm)
        /\ OutEnd(bp.plan[i]) = OutStart(bp.plan[i]) + bp.fixed[k].duration_min

(* C31, as stated: in build_plan a fixed-time task whose interval          *)
(* [start, start + duration) lies inside the availability window, meets no *)
(* busy interval and overlaps no fixed-time item placed before it is       *)
(* placed at its requested time.                                           *)
C31_FixedPlacedWhenFree ==
    bp.pc = "done" =>
        \A k \in DOMAIN bp.fixed :
            FreeFor(hhmm_to_minutes(bp.fixed[k].fixed_start_hhmm),
                    hhmm_to_minutes(bp.fixed[k].fixed_start_hhmm) + bp.fixed[k].duration_min,
                    FixedBefore(k))
            => FixedPlaced(k)

(* C31, amended: such a task is placed when its interval also lies inside  *)
(* a free stretch of at least 10 minutes (shorter gaps are dropped from    *)
(* the window list).                                                       *)
C31_FixedPlacedInKeptWindow ==
    bp.pc = "done" =>
        \A k \in DOMAIN bp.fixed :
            FreeInKeptWindow(hhmm_to_minutes(bp.fixed[k].fixed_start_hhmm),
                             bp.fixed[k].duration_min, FixedBefore(k))
            => FixedPlaced(k)

\* A finished run left a short fixed-time task unscheduled in a free gap
\* too short to be kept, and placed another one.
C31_Witness ==
    /\ bp.pc = "done"
    /\ \E k \in DOMAIN bp.fixed :
          /\ FreeFor(hhmm_to_minutes(bp.fixed[k].fixed_start_hhmm),
                     hhmm_to_minutes(bp.fixed[k].fixed_start_hhmm) + bp.fixed[k].duration_min,
                     FixedBefore(k))
          /\ ~FixedPlaced(k)
    /\ \E k \in DOMAIN bp.fixed :
          /\ FreeInKeptWindow(hhmm_to_minutes(bp.fixed[k].fixed_start_hhmm),
                              bp.fixed[k].duration_min, FixedBefore(k))
          /\ FixedPlaced(k)

-----------------------------------------------------------------------------
\* The plan rows of P for the (user, date) have pairwise distinct versions,
\* which are 1, 2, ..., n with no gap.
VersionsDense(P, tg, d) ==
    LET rows == {q \in P : q.user_id = tg /\ q.date = d}
    IN /\ \A p \in rows, q \in rows : p # q => p.version # q.version
       /\ VersionsOn(P, tg, d) = 1..Cardinality(rows)

\* Worker w's generate_plan fails on uq_plan_version in this step.
FailsOnVersion(w) ==
    /\ sess[w].op = "generate_plan" /\ sess[w].pc = "commit_plan"
    /\ sess'[w].pc = "done" /\ sess'[w].result = "IntegrityError"

(* C32: in every store state reached by generate_plan and lock_plan calls, *)
(* interleaved or not, the versions of the plan rows of a (user, date) are *)
(* pairwise distinct and are exactly 1..n; a generate_plan whose version   *)
(* exists already fails and adds no plan row and no plan item.             *)
C32_VersionsDense ==
    [][/\ \A tg \in TgIds, d \in Dates :
             VersionsDense(plans, tg, d) /\ VersionsDense(plans', tg, d)
       /\ \A w \in Workers :
             FailsOnVersion(w) => plans' = plans /\ plan_items' = plan_items
      ]_vars

\* One generate_plan has failed on the version another one took, and the
\* date has two versions.
C32_Witness ==
    /\ VersionsOn(plans, 1, 1) = {1, 2}
    /\ \E w \in Workers :
          /\ sess[w].op = "generate_plan"
          /\ sess[w].result = "IntegrityError"
          /\ sess[w].cur # <<>>

-----------------------------------------------------------------------------
TaskCommands == {"set_task_done", "delete_task", "move_task", "edit_task"}

(* C33: set_task_done, delete_task, move_task and edit_task called with a  *)
(* task id that no task has or that belongs to another user return False   *)
(* and leave every task row as it was; so no such call by one user changes *)
(* or removes a task of another user.                                      *)
C33_ForeignTaskUntouched ==
    [][ret'.op \in TaskCommands =>
          /\ (~ \E t \in tasks : t.id = ret'.id /\ t.user_id = ret'.tg)
                => ret'.result = "False" /\ tasks' = tasks
          /\ \A t \in tasks : t.user_id # ret'.tg => t \in tasks'
      ]_vars

\* A user's delete_task with the id of the other user's task has returned
\* False, and that task is there as its owner's edit_task left it.
C33_Witness ==
    /\ ret.op = "delete_task" /\ ret.result = "False"
    /\ \E t \in tasks :
          t.id = ret.id /\ t.user_id # ret.tg /\ t.estimated_minutes = <<20>>

====
